---- MODULE Spec2Model ----
(***************************************************************************)
(* Model of the WAL manager of the infinity storage engine                 *)
(* (src/src/storage/wal/wal_manager.cpp): the blocking queue fed by        *)
(* committing transactions, the flush thread, Start/Stop, size-triggered   *)
(* and externally submitted checkpoints, file rotation and recycling, and  *)
(* crash recovery by ReplayWalFile.                                        *)
(*                                                                         *)
(* A WAL entry is a record; user entries stand for one mutating command    *)
(* whose effect on the catalog is identified by the entry's commit_ts, a   *)
(* checkpoint entry carries the Checkpoint command.  Every serialized      *)
(* entry has EntrySize bytes.                                              *)
(***************************************************************************)
EXTENDS Integers, Sequences, FiniteSets, TLC

\* ------------------------------------------------------------------ bounds
NUsers == 2                \* user transactions that may commit
NStoppers == 2             \* threads that may call Stop()
MaxStartCalls == 2         \* calls of Start()
MaxSubmits == 2            \* checkpoint tasks offered by the periodic trigger
MaxForced == 3             \* checkpoints forced by a caller
MaxForceTs == 3            \* greatest max_commit_ts a caller passes
MaxReplay == 3             \* commands handed to the replay handlers
MaxReplayTs == 3           \* greatest commit_ts of a replayed command
NSegments == 2             \* segment ids 0..NSegments-1 of the replayed table
MaxBlocks == 2             \* block infos recorded in one segment info
MaxSegmentReplay == 2      \* Import / Compact commands replayed with any segment info
MaxCacheTs == 4            \* greatest timestamp the index reader cache sees
NColumns == 2              \* columns of the table with a full-text index
MaxReaders == 3            \* calls of GetIndexReader
MaxCallTs == 2             \* greatest timestamp in calls made in any order
MaxLookups == 2            \* calls of IndexReader::GetColumnIndexReader

\* ----------------------------------------------------- configuration, constants
cfg_wal_size_threshold_ == 1
cfg_delta_checkpoint_interval_wal_bytes_ == 1
EntrySize == 1
UNCOMMIT_TS == 99

Users == 1..NUsers
Stoppers == 1..NStoppers

VARIABLES
    \* WalManager fields
    running_, blocking_queue_, wal_size_, max_commit_ts_, last_ckp_wal_size_,
    checkpoint_in_progress_, last_ckp_ts_, last_full_ckp_ts_,
    \* the files of wal_dir_ and of the catalog directory
    wal_log, rolled, flushed_upto, catalog_files,
    \* the flush thread: position, local batch, loop index
    fpc, log_batch, bidx,
    \* callers of Start and Stop
    start_calls, spc, sentinels, joins, closes,
    \* transaction manager and committing transactions
    tpc, ttxn, tts, commit_mutex, next_txn_id, next_ts, txn_map, catalog,
    \* background processor running checkpoint tasks
    bg_queue, bpc, btask, submits, ckp_outcome,
    \* process state: aborted by an unrecoverable error; crashed and recovered
    fatal, phase, rec,
    \* the transactions whose entry serializes to a length other than GetSizeInBytes()
    bad_size,
    \* the configured flush option
    flush_option_,
    \* the catalog under replay, the error a handler raised, the commands replayed
    rcat, rerr, applied, rlast, rcount,
    \* TableIndexReaderCache fields
    first_known_update_ts_, last_known_update_ts_, cache_ts_, cache_column_ts_,
    cache_column_readers_, column2analyzer_,
    \* the full-text indexes of the table: update timestamp and posting sets per column
    segment_update_ts, postings,
    \* the objects behind the shared pointers: column readers, reader maps, analyzer maps
    column_readers, reader_maps, analyzer_maps,
    \* the timestamp allocator, the readers handed out, the last call, the assertion
    now, handed, call, cache_assert,
    \* the calls of IndexReader::GetColumnIndexReader made by the holders of readers
    lookups,
    \* history of the run
    written, commit_bottoms, put_log, pre_stop, ckp_failed

wal_vars == <<running_, blocking_queue_, wal_size_, max_commit_ts_, last_ckp_wal_size_,
              checkpoint_in_progress_, last_ckp_ts_, last_full_ckp_ts_>>
file_vars == <<wal_log, rolled, flushed_upto, catalog_files>>
flush_vars == <<fpc, log_batch, bidx>>
life_vars == <<start_calls, spc, sentinels, joins, closes>>
txn_vars == <<tpc, ttxn, tts, commit_mutex, next_txn_id, next_ts, txn_map, catalog>>
bg_vars == <<bg_queue, bpc, btask, submits, ckp_outcome>>
replay_vars == <<rcat, rerr, applied, rlast, rcount>>
cache_fields == <<first_known_update_ts_, last_known_update_ts_, cache_ts_, cache_column_ts_,
                  cache_column_readers_, column2analyzer_>>
heap_vars == <<column_readers, reader_maps, analyzer_maps>>
cache_vars == <<cache_fields, segment_update_ts, postings, heap_vars, now, handed, call,
                cache_assert, lookups>>
proc_vars == <<fatal, phase, rec, bad_size, flush_option_, replay_vars, cache_vars>>
hist_vars == <<written, commit_bottoms, put_log, pre_stop, ckp_failed>>
vars == <<wal_vars, file_vars, flush_vars, life_vars, txn_vars, bg_vars, proc_vars, hist_vars>>

\* ------------------------------------------------------------------ helpers
Max(S) == CHOOSE m \in S : \A x \in S : x <= m
Min(a, b) == IF a <= b THEN a ELSE b
Range(s) == {s[i] : i \in 1..Len(s)}
Reverse(s) == [i \in 1..Len(s) |-> s[Len(s) + 1 - i]]

\* The terminate entry Stop posts (nullptr, nullptr).
NilEntry == [txn_id |-> 0, commit_ts |-> 0, ckp |-> FALSE, ckp_max |-> 0, ckp_full |-> FALSE]
\* The WalEntry of a user transaction: one mutating command.
UserEntry(id, ts) == [txn_id |-> id, commit_ts |-> ts, ckp |-> FALSE, ckp_max |-> 0, ckp_full |-> FALSE]
\* The WalEntry of a checkpoint transaction: Checkpoint(max_commit_ts, is_full, catalog_path).
CkpEntry(id, ts, T, full) == [txn_id |-> id, commit_ts |-> ts, ckp |-> TRUE, ckp_max |-> T, ckp_full |-> full]

NoTask == [is_full |-> FALSE, txn_id |-> 0, max_commit_ts |-> 0, wal_size |-> 0,
           has_cmd |-> FALSE, commit_ts |-> 0]
NoRec == [status |-> "none", catalog |-> {}, replayed |-> <<>>, durable |-> 0,
          ckp_max |-> 0, system_start_ts |-> 0, last_txn_id |-> 0]

\* ----------------------------------------------------- the catalog under replay
\* One database "d" with one table "t" and one index "i".  A named entry is its list
\* of versions, newest first; a version is (txn_id, commit_ts, dropped).
SegmentIds == 0..(NSegments - 1)
Version(txn_id, commit_ts, dropped) == [txn_id |-> txn_id, commit_ts |-> commit_ts, dropped |-> dropped]
\* The catalog a checkpoint at commit_ts 1 left: the database and the table exist.
BaseCatalog == [db |-> <<Version(1, 1, FALSE)>>, table |-> <<Version(1, 1, FALSE)>>,
                index |-> <<>>, segments |-> {}, appends |-> {}, deletes |-> {}]
\* The columns of the table: those of Columns carry a full-text index, the last one
\* does not.
Columns == 0..(NColumns - 1)
TableColumns == 0..NColumns
\* std::numeric_limits<TxnTimeStamp>::max(): above every timestamp
TxnTimeStampMax == MaxCacheTs + 1
NullMap == 0
\* A default-constructed SharedPtr<ColumnIndexReader> stored in a reader map.
NullReader == -1
NoCall == [op |-> "none", ts |-> 0, column |-> 0]
NoTableCatalog == [BaseCatalog EXCEPT !.table = <<>>]
NoCmd == [type |-> "none", seg |-> 0, blocks |-> <<>>, dep |-> 0, txn_id |-> 0, commit_ts |-> 0]

InitState ==
    /\ running_ = FALSE
    /\ blocking_queue_ = <<>>
    /\ wal_size_ = 0
    /\ max_commit_ts_ = 0
    /\ last_ckp_wal_size_ = 0
    /\ checkpoint_in_progress_ = FALSE
    /\ last_ckp_ts_ = UNCOMMIT_TS
    /\ last_full_ckp_ts_ = UNCOMMIT_TS
    /\ wal_log = <<>> /\ rolled = {} /\ flushed_upto = 0 /\ catalog_files = {}
    /\ fpc = "none" /\ log_batch = <<>> /\ bidx = 0
    /\ start_calls = 0
    /\ spc = [s \in Stoppers |-> "idle"]
    /\ sentinels = 0 /\ joins = 0 /\ closes = 0
    /\ tpc = [u \in Users |-> "idle"]
    /\ ttxn = [u \in Users |-> 0]
    /\ tts = [u \in Users |-> 0]
    /\ commit_mutex = 0
    /\ next_txn_id = 0
    /\ next_ts = 0
    /\ txn_map = {}
    /\ catalog = {}
    /\ bg_queue = <<>> /\ bpc = "idle" /\ btask = NoTask /\ submits = 0 /\ ckp_outcome = "none"
    /\ fatal = FALSE /\ phase = "up" /\ rec = NoRec
    /\ written = <<>> /\ commit_bottoms = <<>> /\ put_log = <<>> /\ pre_stop = {}
    /\ ckp_failed = FALSE
    /\ rerr = "none" /\ applied = {} /\ rlast = NoCmd /\ rcount = 0
    /\ first_known_update_ts_ = 0 /\ last_known_update_ts_ = 0 /\ cache_ts_ = 0
    /\ cache_column_ts_ = [c \in TableColumns |-> 0]
    /\ cache_column_readers_ = NullMap /\ column2analyzer_ = NullMap
    /\ segment_update_ts = [c \in Columns |-> 0] /\ postings = [c \in Columns |-> {}]
    /\ column_readers = <<>> /\ reader_maps = <<>> /\ analyzer_maps = <<>>
    /\ now = 0 /\ handed = <<>> /\ call = NoCall /\ cache_assert = "ok"
    /\ lookups = <<>>

\* Every entry serializes to its estimated size.
Init == InitState /\ bad_size = {} /\ rcat = BaseCatalog /\ flush_option_ = "FlushAtOnce"

\* Some entries serialize to a length that differs from the estimate.
InitSize ==
    InitState /\ bad_size \in SUBSET Users /\ rcat = BaseCatalog /\ flush_option_ = "FlushAtOnce"

FlushOptions == {"FlushAtOnce", "OnlyWrite", "FlushPerSecond"}

\* The manager is constructed with any flush option.
InitOption == InitState /\ bad_size = {} /\ rcat = BaseCatalog /\ flush_option_ \in FlushOptions

\* A segment of the table as the checkpoint files hold it, committed at 1.
SegmentStatuses == {"Unsealed", "Sealed", "Compacting", "Deprecated"}

LoadedSegment(segment_id, status) ==
    [id |-> segment_id, status |-> status, min_row_ts |-> 1, max_row_ts |-> 1, commit_ts |-> 1,
     deprecate_ts |-> IF status = "Deprecated" THEN 1 ELSE UNCOMMIT_TS, txn_id |-> 1,
     blocks |-> <<>>]

\* Recovery into a catalog whose table holds segment 0 in any status.
InitSegments ==
    /\ InitState /\ bad_size = {} /\ flush_option_ = "FlushAtOnce"
    /\ rcat \in {[BaseCatalog EXCEPT !.segments = {LoadedSegment(0, st)}] : st \in SegmentStatuses}

\* Recovery into a catalog whose database holds no table of the name yet.
InitNoTable ==
    InitState /\ bad_size = {} /\ rcat = NoTableCatalog /\ flush_option_ = "FlushAtOnce"

\* The process is alive: not aborted by an unrecoverable error, not crashed.
Alive == phase = "up" /\ ~fatal

\* ------------------------------------------------------- Start and Stop
\* WalManager::Start.  A failed compare-exchange returns at once.
Start ==
    /\ Alive
    /\ start_calls < MaxStartCalls
    /\ \A s \in Stoppers : spc[s] = "idle"
    /\ start_calls' = start_calls + 1
    /\ IF running_
         THEN UNCHANGED <<running_, wal_size_, fpc>>
         ELSE /\ running_' = TRUE
              /\ wal_size_' = 0
              /\ fpc' = "loop"
    /\ UNCHANGED <<blocking_queue_, max_commit_ts_, last_ckp_wal_size_, checkpoint_in_progress_,
                   last_ckp_ts_, last_full_ckp_ts_, file_vars, log_batch, bidx, spc, sentinels,
                   joins, closes, txn_vars, bg_vars, proc_vars, hist_vars>>

\* WalManager::Stop up to the compare-exchange on running_: the winner goes on,
\* every other caller returns.
StopNoCas(s) ==
    /\ Alive
    /\ spc[s] = "idle"
    /\ running_' = FALSE
    /\ spc' = [spc EXCEPT ![s] = "enqueue"]
    /\ UNCHANGED <<blocking_queue_, wal_size_, max_commit_ts_, last_ckp_wal_size_,
                   checkpoint_in_progress_, last_ckp_ts_, last_full_ckp_ts_, file_vars, flush_vars,
                   start_calls, sentinels, joins, closes, txn_vars, bg_vars, proc_vars, hist_vars>>

StopCas(s) ==
    /\ Alive
    /\ spc[s] = "idle"
    /\ IF running_
         THEN /\ running_' = FALSE
              /\ spc' = [spc EXCEPT ![s] = "enqueue"]
         ELSE /\ UNCHANGED running_
              /\ spc' = [spc EXCEPT ![s] = "returned"]
    /\ UNCHANGED <<blocking_queue_, wal_size_, max_commit_ts_, last_ckp_wal_size_,
                   checkpoint_in_progress_, last_ckp_ts_, last_full_ckp_ts_, file_vars, flush_vars,
                   start_calls, sentinels, joins, closes, txn_vars, bg_vars, proc_vars, hist_vars>>

\* Stop going on to the join without the terminate entry.
StopNoEnqueue(s) ==
    /\ Alive
    /\ spc[s] = "enqueue"
    /\ sentinels' = sentinels + 1
    /\ pre_stop' = pre_stop \cup Range(put_log)
    /\ spc' = [spc EXCEPT ![s] = "join"]
    /\ UNCHANGED <<running_, blocking_queue_, wal_size_, max_commit_ts_, last_ckp_wal_size_,
                   checkpoint_in_progress_, last_ckp_ts_, last_full_ckp_ts_, file_vars, flush_vars,
                   start_calls, joins, closes, txn_vars, bg_vars, proc_vars, written,
                   commit_bottoms, put_log, ckp_failed>>

\* blocking_queue_.Enqueue(nullptr, nullptr)
StopEnqueue(s) ==
    /\ Alive
    /\ spc[s] = "enqueue"
    /\ blocking_queue_' = Append(blocking_queue_, NilEntry)
    /\ sentinels' = sentinels + 1
    /\ pre_stop' = pre_stop \cup Range(put_log)
    /\ spc' = [spc EXCEPT ![s] = "join"]
    /\ UNCHANGED <<running_, wal_size_, max_commit_ts_, last_ckp_wal_size_, checkpoint_in_progress_,
                   last_ckp_ts_, last_full_ckp_ts_, file_vars, flush_vars, start_calls, joins,
                   closes, txn_vars, bg_vars, proc_vars, written, commit_bottoms, put_log, ckp_failed>>

\* flush_thread_.join(); ofs_.close().  Closing the stream hands its buffer to the file.
StopJoin(s) ==
    /\ Alive
    /\ spc[s] = "join"
    /\ fpc = "exited"
    /\ joins' = joins + 1
    /\ closes' = closes + 1
    /\ flushed_upto' = Len(written)
    /\ spc' = [spc EXCEPT ![s] = "stopped"]
    /\ UNCHANGED <<wal_vars, wal_log, rolled, catalog_files, flush_vars, start_calls, sentinels,
                   txn_vars, bg_vars, proc_vars, hist_vars>>

\* ------------------------------------------- transactions (transaction manager)
\* TxnManager::GetTxn: the transaction registered under the id, if any.
GetTxn(id) == id \in txn_map

\* WalManager::PutEntry: dropped when the manager is not running, else enqueued.
PutEntry(entry) ==
    IF ~running_
      THEN UNCHANGED <<blocking_queue_, put_log>>
      ELSE /\ blocking_queue_' = Append(blocking_queue_, entry)
           /\ put_log' = Append(put_log, entry.txn_id)

\* TxnManager::BeginTxn: a fresh transaction id, registered as active.
BeginTxn(u) ==
    /\ Alive
    /\ tpc[u] = "idle"
    /\ next_txn_id' = next_txn_id + 1
    /\ ttxn' = [ttxn EXCEPT ![u] = next_txn_id + 1]
    /\ txn_map' = txn_map \cup {next_txn_id + 1}
    /\ tpc' = [tpc EXCEPT ![u] = "active"]
    /\ UNCHANGED <<wal_vars, file_vars, flush_vars, life_vars, tts, commit_mutex, next_ts, catalog,
                   bg_vars, proc_vars, hist_vars>>

\* Commit, write phase: take the commit-order mutex and allocate commit_ts.
TxnCommitLock(u) ==
    /\ Alive
    /\ tpc[u] = "active"
    /\ commit_mutex = 0
    /\ commit_mutex' = ttxn[u]
    /\ next_ts' = next_ts + 1
    /\ tts' = [tts EXCEPT ![u] = next_ts + 1]
    /\ tpc' = [tpc EXCEPT ![u] = "locked"]
    /\ UNCHANGED <<wal_vars, file_vars, flush_vars, life_vars, ttxn, next_txn_id, txn_map, catalog,
                   bg_vars, proc_vars, hist_vars>>

\* Commit: hand the entry to the WAL manager, release the mutex, wait for CommitBottom.
TxnPutEntry(u) ==
    /\ Alive
    /\ tpc[u] = "locked"
    /\ PutEntry(UserEntry(ttxn[u], tts[u]))
    /\ commit_mutex' = 0
    /\ tpc' = [tpc EXCEPT ![u] = "waiting"]
    /\ UNCHANGED <<running_, wal_size_, max_commit_ts_, last_ckp_wal_size_, checkpoint_in_progress_,
                   last_ckp_ts_, last_full_ckp_ts_, file_vars, flush_vars, life_vars, ttxn, tts,
                   next_txn_id, next_ts, txn_map, catalog, bg_vars, proc_vars, written,
                   commit_bottoms, pre_stop, ckp_failed>>

\* Commit returns once CommitBottom has run; the transaction is cleaned up.
TxnFinish(u) ==
    /\ Alive
    /\ tpc[u] = "waiting"
    /\ ttxn[u] \in Range(commit_bottoms)
    /\ txn_map' = txn_map \ {ttxn[u]}
    /\ tpc' = [tpc EXCEPT ![u] = "done"]
    /\ UNCHANGED <<wal_vars, file_vars, flush_vars, life_vars, ttxn, tts, commit_mutex, next_txn_id,
                   next_ts, catalog, bg_vars, proc_vars, hist_vars>>

\* ---------------------------------------------------------- checkpoint tasks
\* WalManager::TrySubmitCheckpointTask: submits iff the compare-exchange on
\* checkpoint_in_progress_ succeeds.
SubmitAlways(is_full) ==
    /\ checkpoint_in_progress_' = TRUE
    /\ bg_queue' = Append(bg_queue, is_full)

TrySubmitCheckpointTask(is_full) ==
    IF ~checkpoint_in_progress_
      THEN /\ checkpoint_in_progress_' = TRUE
           /\ bg_queue' = Append(bg_queue, is_full)
      ELSE UNCHANGED <<checkpoint_in_progress_, bg_queue>>

\* ------------------------------------------------------------ the flush thread
\* while (running_.load())
FlushLoop ==
    /\ Alive
    /\ fpc = "loop"
    /\ fpc' = IF running_ THEN "dequeue" ELSE "exited"
    /\ UNCHANGED <<wal_vars, file_vars, log_batch, bidx, life_vars, txn_vars, bg_vars, proc_vars,
                   hist_vars>>

\* blocking_queue_.DequeueBulk(log_batch): blocks while the queue is empty, then takes all of it.
FlushDequeue ==
    /\ Alive
    /\ fpc = "dequeue"
    /\ blocking_queue_ # <<>>
    /\ log_batch' = blocking_queue_
    /\ blocking_queue_' = <<>>
    /\ bidx' = 1
    /\ fpc' = "write"
    /\ UNCHANGED <<running_, wal_size_, max_commit_ts_, last_ckp_wal_size_, checkpoint_in_progress_,
                   last_ckp_ts_, last_full_ckp_ts_, file_vars, life_vars, txn_vars, bg_vars,
                   proc_vars, hist_vars>>

\* The i-th entry the write loop visits.
WriteAtReversed(batch, i) == batch[Len(batch) + 1 - i]

WriteAt(batch, i) == batch[i]

\* The size check skipped.
SizeNotChecked(entry) == FALSE

\* exp_size != act_size: the estimate of GetSizeInBytes() against the length WriteAdv produced.
SizeMismatch(entry) == entry.txn_id \in bad_size

\* One iteration of the write loop: the terminate entry ends the loop, any other
\* entry is serialized, its size verified, and written to ofs_.
FlushWrite ==
    /\ Alive
    /\ fpc = "write"
    /\ LET entry == WriteAt(log_batch, bidx) IN
         IF entry = NilEntry
           THEN /\ running_' = FALSE
                /\ fpc' = "sync"
                /\ UNCHANGED <<wal_log, written, max_commit_ts_, wal_size_, bidx, fatal>>
           ELSE IF SizeMismatch(entry)
           THEN /\ fatal' = TRUE
                /\ UNCHANGED <<wal_log, written, max_commit_ts_, wal_size_, bidx, fpc, running_>>
           ELSE /\ wal_log' = Append(wal_log, entry)
                /\ written' = Append(written, entry)
                /\ max_commit_ts_' = entry.commit_ts
                /\ wal_size_' = wal_size_ + EntrySize
                /\ bidx' = bidx + 1
                /\ fpc' = IF bidx = Len(log_batch) THEN "sync" ELSE "write"
                /\ UNCHANGED <<running_, fatal>>
    /\ UNCHANGED <<blocking_queue_, last_ckp_wal_size_, checkpoint_in_progress_, last_ckp_ts_,
                   last_full_ckp_ts_, rolled, flushed_upto, catalog_files, log_batch, life_vars,
                   txn_vars, bg_vars, phase, rec, bad_size, flush_option_, replay_vars, cache_vars, commit_bottoms,
                   put_log, pre_stop, ckp_failed>>

\* ofs_.flush(): everything written so far has left the stream's buffer.
OfsNoFlush == flushed_upto

\* The switch on flush_option_: ofs_.flush() in each of its cases.
OfsFlush ==
    CASE flush_option_ = "FlushAtOnce" -> Len(written)
      [] flush_option_ = "OnlyWrite" -> Len(written)
      [] flush_option_ = "FlushPerSecond" -> Len(written)

\* The test after the write loop that leaves the main loop.
StopSeenInverted == running_

StopSeen == ~running_

\* if (!running_.load()) break; then the flush of the batch (every flush_option_ flushes).
FlushSync ==
    /\ Alive
    /\ fpc = "sync"
    /\ IF StopSeen
         THEN /\ fpc' = "exited"
              /\ UNCHANGED <<flushed_upto, bidx>>
         ELSE /\ flushed_upto' = OfsFlush
              /\ bidx' = 1
              /\ fpc' = "commit"
    /\ UNCHANGED <<wal_vars, wal_log, rolled, catalog_files, log_batch, life_vars, txn_vars,
                   bg_vars, proc_vars, hist_vars>>

\* The i-th entry the commit loop visits.
CommitAtReversed(batch, i) == batch[Len(batch) + 1 - i]

CommitAt(batch, i) == batch[i]

\* One iteration of the commit loop: CommitBottom of the entry's transaction, if registered.
\* CommitBottom finalizes the transaction's catalog changes and wakes the committer.
FlushCommit ==
    /\ Alive
    /\ fpc = "commit"
    /\ LET entry == CommitAt(log_batch, bidx) IN
         IF GetTxn(entry.txn_id)
           THEN /\ commit_bottoms' = Append(commit_bottoms, entry.txn_id)
                /\ catalog' = IF entry.ckp THEN catalog ELSE catalog \cup {entry.commit_ts}
           ELSE UNCHANGED <<commit_bottoms, catalog>>
    /\ IF bidx = Len(log_batch)
         THEN /\ log_batch' = <<>>
              /\ bidx' = 0
              /\ fpc' = "swap"
         ELSE /\ bidx' = bidx + 1
              /\ UNCHANGED <<log_batch, fpc>>
    /\ UNCHANGED <<wal_vars, file_vars, life_vars, tpc, ttxn, tts, commit_mutex, next_txn_id,
                   next_ts, txn_map, bg_vars, proc_vars, written, put_log, pre_stop, ckp_failed>>

\* A swap that reopens wal.log without keeping the old file.
SwapWalFileNoRename(max_commit_ts) ==
    /\ UNCHANGED rolled
    /\ wal_log' = <<>>
    /\ flushed_upto' = Len(written)

\* A swap that names the rolled file after the first entry of wal.log.
SwapWalFileFirstTs(max_commit_ts) ==
    /\ rolled' = {f \in rolled : f.name # wal_log[1].commit_ts}
                   \cup {[name |-> wal_log[1].commit_ts, entries |-> wal_log]}
    /\ wal_log' = <<>>
    /\ flushed_upto' = Len(written)

\* WalManager::SwapWalFile: wal.log becomes wal.log.<max_commit_ts>, a fresh wal.log is opened.
SwapWalFile(max_commit_ts) ==
    /\ rolled' = {f \in rolled : f.name # max_commit_ts}
                   \cup {[name |-> max_commit_ts, entries |-> wal_log]}
    /\ wal_log' = <<>>
    /\ flushed_upto' = Len(written)

\* Rotation check after the batch: the size of wal.log against the threshold.
FlushSwap ==
    /\ Alive
    /\ fpc = "swap"
    /\ IF Len(wal_log) * EntrySize > cfg_wal_size_threshold_
         THEN SwapWalFile(max_commit_ts_)
         ELSE UNCHANGED <<rolled, wal_log, flushed_upto>>
    /\ fpc' = "trigger"
    /\ UNCHANGED <<wal_vars, catalog_files, log_batch, bidx, life_vars, txn_vars, bg_vars,
                   proc_vars, hist_vars>>

\* The size test of the delta checkpoint.
DeltaTriggerAtInterval == wal_size_ - last_ckp_wal_size_ >= cfg_delta_checkpoint_interval_wal_bytes_

DeltaTrigger == wal_size_ - last_ckp_wal_size_ > cfg_delta_checkpoint_interval_wal_bytes_

\* Size trigger of the delta checkpoint, end of the loop body.
FlushTrigger ==
    /\ Alive
    /\ fpc = "trigger"
    /\ IF DeltaTrigger
         THEN TrySubmitCheckpointTask(FALSE)
         ELSE UNCHANGED <<checkpoint_in_progress_, bg_queue>>
    /\ fpc' = "loop"
    /\ UNCHANGED <<running_, blocking_queue_, wal_size_, max_commit_ts_, last_ckp_wal_size_,
                   last_ckp_ts_, last_full_ckp_ts_, file_vars, log_batch, bidx, life_vars, txn_vars,
                   bpc, btask, submits, ckp_outcome, proc_vars, hist_vars>>

Flush == FlushLoop \/ FlushDequeue \/ FlushWrite \/ FlushSync \/ FlushCommit \/ FlushSwap
           \/ FlushTrigger

\* ------------------------------------------------- the background processor
\* The periodic trigger (or a forced checkpoint) offers a task.
SubmitCheckpoint ==
    /\ Alive
    /\ submits < MaxSubmits
    /\ submits' = submits + 1
    /\ \E is_full \in BOOLEAN : TrySubmitCheckpointTask(is_full)
    /\ UNCHANGED <<running_, blocking_queue_, wal_size_, max_commit_ts_, last_ckp_wal_size_,
                   last_ckp_ts_, last_full_ckp_ts_, file_vars, flush_vars, life_vars, txn_vars,
                   bpc, btask, ckp_outcome, proc_vars, hist_vars>>

\* Catalog::GetCheckpointState: the greatest commit_ts finalized in the catalog, and the WAL size.
CatalogMaxCommitTs == IF catalog = {} THEN 0 ELSE Max(catalog)

\* The processor takes the task; WalManager::Checkpoint begins its transaction.
BgTake ==
    /\ Alive
    /\ bpc = "idle"
    /\ bg_queue # <<>>
    /\ bg_queue' = Tail(bg_queue)
    /\ next_txn_id' = next_txn_id + 1
    /\ txn_map' = txn_map \cup {next_txn_id + 1}
    /\ btask' = [is_full |-> Head(bg_queue), txn_id |-> next_txn_id + 1,
                 max_commit_ts |-> CatalogMaxCommitTs, wal_size |-> wal_size_,
                 has_cmd |-> FALSE, commit_ts |-> 0]
    /\ bpc' = "inner"
    /\ UNCHANGED <<wal_vars, file_vars, flush_vars, life_vars, tpc, ttxn, tts, commit_mutex,
                   next_ts, catalog, submits, ckp_outcome, proc_vars, hist_vars>>

\* Txn::Checkpoint, on success: the catalog file written under catalog_dir.
\* A full checkpoint holds the catalog up to max_commit_ts, a delta what was
\* committed after the last checkpoint.
CatalogFile(max_commit_ts, is_full) ==
    [full |-> is_full, ts |-> max_commit_ts,
     content |-> IF is_full THEN {c \in catalog : c <= max_commit_ts}
                 ELSE {c \in catalog : last_ckp_ts_ < c /\ c <= max_commit_ts}]

\* WalFile::RecycleWalFile: the rolled files a checkpoint at ckp_ts makes obsolete.
RecycleWalFile(ckp_ts) == {f \in rolled : f.name > ckp_ts}

\* CatalogFile::RecycleCatalogFile: the catalog files a full checkpoint at full_ckp_ts
\* makes obsolete; the full checkpoint file of full_ckp_ts itself stays.
RecycleCatalogFile(files, full_ckp_ts) ==
    {f \in files : f.ts > full_ckp_ts \/ (f.full /\ f.ts = full_ckp_ts)}

\* The checks with the error branches left out.
CheckpointPrecheckNoError(is_full, max_commit_ts) ==
    IF max_commit_ts = (IF is_full THEN last_full_ckp_ts_ ELSE last_ckp_ts_) THEN "skip" ELSE "go"

\* The checks without the comparison of a full checkpoint with last_ckp_ts_.
CheckpointPrecheckFullUnordered(is_full, max_commit_ts) ==
    IF is_full
      THEN IF max_commit_ts = last_full_ckp_ts_ THEN "skip"
           ELSE IF last_full_ckp_ts_ # UNCOMMIT_TS /\ last_full_ckp_ts_ >= max_commit_ts THEN "error"
           ELSE "go"
      ELSE IF max_commit_ts = last_ckp_ts_ THEN "skip"
           ELSE IF last_ckp_ts_ >= max_commit_ts THEN "error"
           ELSE "go"

\* The checks with the delta branch guarded like the full branch: an unset
\* last_ckp_ts_ passes.
CheckpointPrecheckUnsetPasses(is_full, max_commit_ts) ==
    IF is_full
      THEN IF max_commit_ts = last_full_ckp_ts_ THEN "skip"
           ELSE IF last_full_ckp_ts_ # UNCOMMIT_TS /\ last_full_ckp_ts_ >= max_commit_ts THEN "error"
           ELSE IF last_ckp_ts_ # UNCOMMIT_TS /\ last_ckp_ts_ > max_commit_ts THEN "error"
           ELSE "go"
      ELSE IF max_commit_ts = last_ckp_ts_ THEN "skip"
           ELSE IF last_ckp_ts_ # UNCOMMIT_TS /\ last_ckp_ts_ >= max_commit_ts THEN "error"
           ELSE "go"

\* The checks that open CheckpointInner: "skip", "error" (unrecoverable) or "go".
CheckpointPrecheck(is_full, max_commit_ts) ==
    IF is_full
      THEN IF max_commit_ts = last_full_ckp_ts_ THEN "skip"
           ELSE IF last_full_ckp_ts_ # UNCOMMIT_TS /\ last_full_ckp_ts_ >= max_commit_ts THEN "error"
           ELSE IF last_ckp_ts_ # UNCOMMIT_TS /\ last_ckp_ts_ > max_commit_ts THEN "error"
           ELSE "go"
      ELSE IF max_commit_ts = last_ckp_ts_ THEN "skip"
           ELSE IF last_ckp_ts_ >= max_commit_ts THEN "error"
           ELSE "go"

\* What follows the try block: last_ckp_ts_, recycling; a full checkpoint also
\* sets last_full_ckp_ts_ and recycles catalog files.
CheckpointTail(is_full, max_commit_ts, files) ==
    /\ last_ckp_ts_' = max_commit_ts
    /\ rolled' = RecycleWalFile(max_commit_ts)
    /\ IF is_full
         THEN /\ last_full_ckp_ts_' = max_commit_ts
              /\ catalog_files' = RecycleCatalogFile(files, max_commit_ts)
         ELSE /\ UNCHANGED last_full_ckp_ts_
              /\ catalog_files' = files

DeferNothing == UNCHANGED checkpoint_in_progress_
\* DeferFn defer of CheckpointInner: runs on every way out of the function.
Defer == checkpoint_in_progress_' = FALSE

\* WalManager::CheckpointInner.  outcome is what txn->Checkpoint does: returns true
\* ("ok"), returns false, throws a recoverable or an unrecoverable exception.
CheckpointInner ==
    /\ Alive
    /\ bpc = "inner"
    /\ Defer
    /\ LET is_full == btask.is_full
           T == btask.max_commit_ts
           pre == CheckpointPrecheck(is_full, T)
       IN  \/ /\ pre = "skip"
              /\ ckp_outcome' = "skip"
              /\ bpc' = "commit"
              /\ UNCHANGED <<last_ckp_ts_, last_full_ckp_ts_, last_ckp_wal_size_, rolled,
                             catalog_files, btask, fatal, ckp_failed>>
           \/ /\ pre = "error"
              /\ ckp_outcome' = "precheck_error"
              /\ fatal' = TRUE
              /\ bpc' = "aborted"
              /\ UNCHANGED <<last_ckp_ts_, last_full_ckp_ts_, last_ckp_wal_size_, rolled,
                             catalog_files, btask, ckp_failed>>
           \/ /\ pre = "go"
              /\ \/ /\ ckp_outcome' = "ok"
                    /\ btask' = [btask EXCEPT !.has_cmd = TRUE]
                    /\ last_ckp_wal_size_' = btask.wal_size
                    /\ CheckpointTail(is_full, T,
                          {f \in catalog_files : ~(f.full = is_full /\ f.ts = T)}
                             \cup {CatalogFile(T, is_full)})
                    /\ bpc' = "commit"
                    /\ UNCHANGED <<fatal, ckp_failed>>
                 \/ /\ ckp_outcome' = "false"
                    /\ bpc' = "commit"
                    /\ ckp_failed' = TRUE
                    /\ UNCHANGED <<last_ckp_ts_, last_full_ckp_ts_, last_ckp_wal_size_, rolled,
                                   catalog_files, btask, fatal>>
                 \/ /\ ckp_outcome' = "recoverable"
                    /\ CheckpointTail(is_full, T, catalog_files)
                    /\ bpc' = "commit"
                    /\ ckp_failed' = TRUE
                    /\ UNCHANGED <<last_ckp_wal_size_, btask, fatal>>
                 \/ /\ ckp_outcome' = "unrecoverable"
                    /\ fatal' = TRUE
                    /\ bpc' = "aborted"
                    /\ ckp_failed' = TRUE
                    /\ UNCHANGED <<last_ckp_ts_, last_full_ckp_ts_, last_ckp_wal_size_, rolled,
                                   catalog_files, btask>>
    /\ UNCHANGED <<running_, blocking_queue_, wal_size_, max_commit_ts_, wal_log, flushed_upto,
                   flush_vars, life_vars, txn_vars, bg_queue, submits, phase, rec, bad_size, flush_option_,
                   replay_vars, cache_vars,
                   written,
                   commit_bottoms, put_log, pre_stop>>

\* TxnManager::CommitTxn of the checkpoint transaction: with a Checkpoint command it
\* takes the commit-order mutex and allocates commit_ts; with an empty WAL entry it
\* returns at once.
BgCommit ==
    /\ Alive
    /\ bpc = "commit"
    /\ IF btask.has_cmd
         THEN /\ commit_mutex = 0
              /\ commit_mutex' = btask.txn_id
              /\ next_ts' = next_ts + 1
              /\ btask' = [btask EXCEPT !.commit_ts = next_ts + 1]
              /\ bpc' = "locked"
              /\ UNCHANGED txn_map
         ELSE /\ txn_map' = txn_map \ {btask.txn_id}
              /\ btask' = NoTask
              /\ bpc' = "idle"
              /\ UNCHANGED <<commit_mutex, next_ts>>
    /\ ckp_outcome' = "none"
    /\ UNCHANGED <<wal_vars, file_vars, flush_vars, life_vars, tpc, ttxn, tts, next_txn_id,
                   catalog, bg_queue, submits, proc_vars, hist_vars>>

BgPutEntry ==
    /\ Alive
    /\ bpc = "locked"
    /\ PutEntry(CkpEntry(btask.txn_id, btask.commit_ts, btask.max_commit_ts, btask.is_full))
    /\ commit_mutex' = 0
    /\ bpc' = "waiting"
    /\ UNCHANGED <<running_, wal_size_, max_commit_ts_, last_ckp_wal_size_, checkpoint_in_progress_,
                   last_ckp_ts_, last_full_ckp_ts_, file_vars, flush_vars, life_vars, tpc, ttxn, tts,
                   next_txn_id, next_ts, txn_map, catalog, bg_queue, btask, submits, ckp_outcome,
                   proc_vars, written, commit_bottoms, pre_stop, ckp_failed>>

BgFinish ==
    /\ Alive
    /\ bpc = "waiting"
    /\ btask.txn_id \in Range(commit_bottoms)
    /\ txn_map' = txn_map \ {btask.txn_id}
    /\ btask' = NoTask
    /\ bpc' = "idle"
    /\ UNCHANGED <<wal_vars, file_vars, flush_vars, life_vars, tpc, ttxn, tts, commit_mutex,
                   next_txn_id, next_ts, catalog, bg_queue, submits, ckp_outcome, proc_vars,
                   hist_vars>>

Background == BgTake \/ CheckpointInner \/ BgCommit \/ BgPutEntry \/ BgFinish

\* WalManager::Checkpoint(ForceCheckpointTask *, max_commit_ts, wal_size): the caller
\* owns the transaction and chooses max_commit_ts; the task went through
\* TrySubmitCheckpointTask.
ForceCheckpoint ==
    /\ Alive
    /\ bpc = "idle"
    /\ bg_queue = <<>>
    /\ ~checkpoint_in_progress_
    /\ submits < MaxForced
    /\ submits' = submits + 1
    /\ checkpoint_in_progress_' = TRUE
    /\ next_txn_id' = next_txn_id + 1
    /\ txn_map' = txn_map \cup {next_txn_id + 1}
    /\ \E is_full \in BOOLEAN, T \in 0..MaxForceTs :
         btask' = [is_full |-> is_full, txn_id |-> next_txn_id + 1, max_commit_ts |-> T,
                   wal_size |-> wal_size_, has_cmd |-> FALSE, commit_ts |-> 0]
    /\ bpc' = "inner"
    /\ UNCHANGED <<running_, blocking_queue_, wal_size_, max_commit_ts_, last_ckp_wal_size_,
                   last_ckp_ts_, last_full_ckp_ts_, file_vars, flush_vars, life_vars, tpc, ttxn,
                   tts, commit_mutex, next_ts, catalog, bg_queue, ckp_outcome, proc_vars,
                   hist_vars>>

\* The forced checkpoint returns to its caller, which ends the transaction.
ForceReturn ==
    /\ Alive
    /\ bpc = "commit"
    /\ txn_map' = txn_map \ {btask.txn_id}
    /\ btask' = NoTask
    /\ bpc' = "idle"
    /\ ckp_outcome' = "none"
    /\ UNCHANGED <<wal_vars, file_vars, flush_vars, life_vars, tpc, ttxn, tts, commit_mutex,
                   next_txn_id, next_ts, catalog, bg_queue, submits, proc_vars, hist_vars>>

\* ------------------------------------------------------------------- recovery
RECURSIVE SortDesc(_)
SortDesc(S) == IF S = {} THEN <<>> ELSE <<Max(S)>> \o SortDesc(S \ {Max(S)})

\* wal_list: the active wal.log first, then the rolled files by max_commit_ts descending.
WalList(wal_exists, active, files) ==
    LET names == SortDesc({f.name : f \in files})
    IN  (IF wal_exists THEN <<active>> ELSE <<>>)
          \o [i \in 1..Len(names) |-> (CHOOSE f \in files : f.name = names[i]).entries]

\* WalListIterator: the entries of the listed files, each file read from its end.
RECURSIVE WalListIterator(_)
WalListIterator(wal_list) ==
    IF wal_list = <<>> THEN <<>>
    ELSE Reverse(Head(wal_list)) \o WalListIterator(Tail(wal_list))

\* Phase 1 taking the first entry it reads for a checkpoint.
FirstEntryAsCheckpoint(stream) == IF stream = <<>> THEN 0 ELSE 1

\* Phase 1: the position of the first entry holding a Checkpoint command, 0 if none.
FirstCheckpoint(stream) ==
    IF \E i \in 1..Len(stream) : stream[i].ckp
      THEN CHOOSE i \in 1..Len(stream) : stream[i].ckp /\ \A j \in 1..(i - 1) : ~stream[j].ckp
      ELSE 0

\* Phase 2 without the stop at max_commit_ts: every older entry is taken.
DrainToEnd(stream, from, max_commit_ts) == SubSeq(stream, from, Len(stream))

\* Phase 2: the entries after position from, up to the first with commit_ts <= max_commit_ts.
RECURSIVE DrainTail(_, _, _)
DrainTail(stream, from, max_commit_ts) ==
    IF from > Len(stream) \/ stream[from].commit_ts <= max_commit_ts THEN <<>>
    ELSE <<stream[from]>> \o DrainTail(stream, from + 1, max_commit_ts)

\* CatalogFile::ParseValidCheckpointFilenames: the newest full checkpoint file with
\* ts <= max_commit_ts and the delta files in (full ts, max_commit_ts]; {} if no full file.
ParseValidCheckpointFilenames(files, max_commit_ts) ==
    LET fulls == {f \in files : f.full /\ f.ts <= max_commit_ts}
    IN  IF fulls = {} THEN {}
        ELSE LET full == CHOOSE f \in fulls : \A g \in fulls : g.ts <= f.ts
             IN  {full} \cup {f \in files : ~f.full /\ full.ts < f.ts /\ f.ts <= max_commit_ts}

\* WalManager::ReplayWalEntry on the catalog: the entry's command installed with the
\* entry's commit_ts; a Checkpoint command installs nothing.
ReplayWalEntry(cat, entry) == IF entry.ckp THEN cat ELSE cat \cup {entry.commit_ts}

RECURSIVE ReplayAll(_, _)
ReplayAll(cat, entries) ==
    IF entries = <<>> THEN cat ELSE ReplayAll(ReplayWalEntry(cat, Head(entries)), Tail(entries))

\* WalManager::ReplayWalFile over the files a crash left.
ReplayWalFile(wal_exists, active, files, cfiles, durable) ==
    LET wal_list == WalList(wal_exists, active, files)
        stream == WalListIterator(wal_list)
        at == FirstCheckpoint(stream)
        max_commit_ts == IF at = 0 THEN 0 ELSE stream[at].ckp_max
        phase1 == IF at = 0 THEN stream ELSE SubSeq(stream, 1, at - 1)
        phase2 == IF at = 0 THEN <<>> ELSE DrainTail(stream, at + 1, max_commit_ts)
        replay_entries == Reverse(phase1 \o phase2)
        cat_files == ParseValidCheckpointFilenames(cfiles, max_commit_ts)
        attached == UNION {f.content : f \in cat_files}
        result(st, cat, replayed, start_ts, last_id) ==
            [status |-> st, catalog |-> cat, replayed |-> replayed, durable |-> durable,
             ckp_max |-> max_commit_ts, system_start_ts |-> start_ts, last_txn_id |-> last_id]
    IN  IF wal_list = <<>> THEN result("new", {}, <<>>, 0, 0)
        ELSE IF at = 0 \/ stream[at].commit_ts = 0 THEN result("no_checkpoint", {}, <<>>, 0, 0)
        ELSE IF cat_files = {} THEN result("no_catalog", {}, <<>>, 0, 0)
        ELSE IF \E i \in 1..Len(replay_entries) : replay_entries[i].commit_ts < max_commit_ts
          THEN result("bad_order", {}, <<>>, 0, 0)
        ELSE result("ok", ReplayAll(attached, replay_entries), replay_entries,
                    IF replay_entries = <<>> THEN stream[at].commit_ts
                    ELSE replay_entries[Len(replay_entries)].commit_ts,
                    IF replay_entries = <<>> THEN 0
                    ELSE replay_entries[Len(replay_entries)].txn_id)

\* The process dies (power loss, or the abort after an unrecoverable error) and is
\* restarted: of the entries still in the stream's buffer any prefix may have reached
\* the file.  Recovery then runs on what is on disk.
CrashRecover ==
    /\ phase = "up"
    /\ \E lost \in 0..(Len(written) - flushed_upto) :
         rec' = ReplayWalFile(fpc # "none", SubSeq(wal_log, 1, Len(wal_log) - lost), rolled,
                              catalog_files, Len(written) - lost)
    /\ phase' = "recovered"
    /\ UNCHANGED <<wal_vars, file_vars, flush_vars, life_vars, txn_vars, bg_vars, fatal, bad_size, flush_option_,
                   replay_vars, cache_vars, hist_vars>>

\* ------------------------------------------------------ the replay handlers
\* The version a lookup at snap_ts sees: the newest with commit_ts <= snap_ts.
Visible(versions, snap_ts) ==
    /\ \E i \in 1..Len(versions) : versions[i].commit_ts <= snap_ts
    /\ LET i == CHOOSE k \in 1..Len(versions) :
                   /\ versions[k].commit_ts <= snap_ts
                   /\ \A j \in 1..(k - 1) : versions[j].commit_ts > snap_ts
       IN  ~versions[i].dropped

\* create_X_replay / drop_X_replay: a version with the same (txn_id, commit_ts) is
\* reused, any other is inserted at its place in the list, newest first.
InsertVersionReplay(versions, v) ==
    IF \E i \in 1..Len(versions) :
          versions[i].txn_id = v.txn_id /\ versions[i].commit_ts = v.commit_ts
      THEN versions
      ELSE LET newer == SelectSeq(versions, LAMBDA w : w.commit_ts > v.commit_ts)
               older == SelectSeq(versions, LAMBDA w : w.commit_ts <= v.commit_ts)
           IN  newer \o <<v>> \o older

Done(cat) == [cat |-> cat, err |-> "none"]
Failed(cat, err) == [cat |-> cat, err |-> err]

\* GetDatabaseReplay / GetTableReplay: the newest version of the parent, which must exist.
GetDatabaseReplay(cat) == cat.db # <<>> /\ ~Head(cat.db).dropped
GetTableReplay(cat) == GetDatabaseReplay(cat) /\ cat.table # <<>> /\ ~Head(cat.table).dropped
\* Catalog::GetTableByName at commit_ts: status ok iff database and table are visible.
GetTableByName(cat, commit_ts) == Visible(cat.db, commit_ts) /\ Visible(cat.table, commit_ts)

WalCmdCreateDatabaseReplay(cat, txn_id, commit_ts) ==
    Done([cat EXCEPT !.db = InsertVersionReplay(@, Version(txn_id, commit_ts, FALSE))])

WalCmdDropDatabaseReplay(cat, txn_id, commit_ts) ==
    IF cat.db = <<>> THEN Failed(cat, "unrecoverable")
    ELSE Done([cat EXCEPT !.db = InsertVersionReplay(@, Version(txn_id, commit_ts, TRUE))])

WalCmdCreateTableReplayAtBeginTs(cat, txn_id, commit_ts) ==
    IF ~GetDatabaseReplay(cat) THEN Failed(cat, "unrecoverable")
    ELSE Done([cat EXCEPT !.table = InsertVersionReplay(@, Version(txn_id, 0, FALSE))])

WalCmdCreateTableReplay(cat, txn_id, commit_ts) ==
    IF ~GetDatabaseReplay(cat) THEN Failed(cat, "unrecoverable")
    ELSE Done([cat EXCEPT !.table = InsertVersionReplay(@, Version(txn_id, commit_ts, FALSE))])

WalCmdDropTableReplay(cat, txn_id, commit_ts) ==
    IF ~GetDatabaseReplay(cat) \/ cat.table = <<>> THEN Failed(cat, "unrecoverable")
    ELSE Done([cat EXCEPT !.table = InsertVersionReplay(@, Version(txn_id, commit_ts, TRUE))])

WalCmdCreateIndexReplay(cat, txn_id, commit_ts) ==
    IF ~GetTableReplay(cat) THEN Failed(cat, "unrecoverable")
    ELSE Done([cat EXCEPT !.index = InsertVersionReplay(@, Version(txn_id, commit_ts, FALSE))])

WalCmdDropIndexReplay(cat, txn_id, commit_ts) ==
    IF ~GetTableReplay(cat) \/ cat.index = <<>> THEN Failed(cat, "unrecoverable")
    ELSE Done([cat EXCEPT !.index = InsertVersionReplay(@, Version(txn_id, commit_ts, TRUE))])

\* The segment info of an Import or Compact command.
WalSegmentInfo(cmd) == [segment_id |-> cmd.seg, block_infos |-> cmd.blocks]

NewReplayBlockColumnEntry(column_id, outline_info, commit_ts) ==
    [column_id |-> column_id, next_idx |-> outline_info[1], last_off |-> outline_info[2],
     commit_ts |-> commit_ts]

\* BlockEntry::AddColumnReplay / SegmentEntry::AddBlockReplay: the entry takes the
\* place of its id in the list, which grows by one when the id is the next one.
AddColumnReplay(columns, column_entry, column_id) ==
    IF column_id + 1 > Len(columns) THEN Append(columns, column_entry)
    ELSE [columns EXCEPT ![column_id + 1] = column_entry]

AddBlockReplay(blocks, block_entry, block_id) ==
    IF block_id + 1 > Len(blocks) THEN Append(blocks, block_entry)
    ELSE [blocks EXCEPT ![block_id + 1] = block_entry]

\* The inner loop of ReplaySegment over the outline infos 0..n-1 of a block.
RECURSIVE ReplayColumns(_, _, _)
ReplayColumns(outline_infos, n, commit_ts) ==
    IF n = 0 THEN <<>>
    ELSE AddColumnReplay(ReplayColumns(outline_infos, n - 1, commit_ts),
                         NewReplayBlockColumnEntry(n - 1, outline_infos[n], commit_ts), n - 1)

NewReplayBlockEntryNoCheckpoint(block_id, block_info, commit_ts) ==
    [block_id |-> block_id, row_count |-> block_info.row_count,
     min_row_ts |-> commit_ts, max_row_ts |-> commit_ts, commit_ts |-> commit_ts,
     checkpoint_ts |-> 0, checkpoint_row_count |-> 0,
     columns |-> ReplayColumns(block_info.outline_infos, Len(block_info.outline_infos), commit_ts)]

NewReplayBlockEntry(block_id, block_info, commit_ts) ==
    [block_id |-> block_id, row_count |-> block_info.row_count,
     min_row_ts |-> commit_ts, max_row_ts |-> commit_ts, commit_ts |-> commit_ts,
     checkpoint_ts |-> commit_ts, checkpoint_row_count |-> block_info.row_count,
     columns |-> ReplayColumns(block_info.outline_infos, Len(block_info.outline_infos), commit_ts)]

\* The outer loop of ReplaySegment over the block infos 0..n-1.
RECURSIVE ReplayBlocks(_, _, _)
ReplayBlocks(block_infos, n, commit_ts) ==
    IF n = 0 THEN <<>>
    ELSE AddBlockReplay(ReplayBlocks(block_infos, n - 1, commit_ts),
                        NewReplayBlockEntry(n - 1, block_infos[n], commit_ts), n - 1)

\* WalManager::ReplaySegment: the segment rebuilt from a segment info.
ReplaySegment(segment_info, txn_id, commit_ts) ==
    [id |-> segment_info.segment_id, status |-> "Sealed",
     min_row_ts |-> commit_ts, max_row_ts |-> commit_ts,
     commit_ts |-> commit_ts, deprecate_ts |-> UNCOMMIT_TS, txn_id |-> txn_id,
     blocks |-> ReplayBlocks(segment_info.block_infos, Len(segment_info.block_infos), commit_ts)]

\* AddSegmentReplayWalImport / AddSegmentReplayWalCompact: the segment map takes the
\* segment under its id; a segment already installed by the same (txn_id, commit_ts)
\* is kept as it is.
AddSegmentReplayWal(segments, seg) ==
    IF \E s \in segments : s.id = seg.id /\ s.txn_id = seg.txn_id /\ s.commit_ts = seg.commit_ts
      THEN segments
      ELSE {s \in segments : s.id # seg.id} \cup {seg}

WalCmdImportReplay(cat, cmd, txn_id, commit_ts) ==
    IF ~GetTableByName(cat, commit_ts) THEN Failed(cat, "unrecoverable")
    ELSE Done([cat EXCEPT !.segments =
                  AddSegmentReplayWal(@, ReplaySegment(WalSegmentInfo(cmd), txn_id, commit_ts))])

\* Catalog::Append and Catalog::Delete with CommitWrite: the rows of the command,
\* recorded under its (txn_id, commit_ts).
WalCmdAppendReplay(cat, txn_id, commit_ts) ==
    IF ~GetTableByName(cat, commit_ts) THEN Failed(cat, "unrecoverable")
    ELSE Done([cat EXCEPT !.appends = @ \cup {<<txn_id, commit_ts>>}])

WalCmdDeleteReplay(cat, txn_id, commit_ts) ==
    IF ~GetTableByName(cat, commit_ts) THEN Failed(cat, "unrecoverable")
    ELSE Done([cat EXCEPT !.deletes = @ \cup {<<txn_id, commit_ts>>}])

\* Visibility of a segment version at snap_ts: committed at or before it and not
\* deprecated at or before it.
SegmentVisible(seg, snap_ts) ==
    /\ seg.commit_ts # UNCOMMIT_TS
    /\ seg.commit_ts <= snap_ts
    /\ (seg.deprecate_ts = UNCOMMIT_TS \/ seg.deprecate_ts > snap_ts)

\* SegmentEntry::TrySetCompacting: only a sealed segment can be compacted.
TrySetCompacting(seg) == seg.status = "Sealed"

WalCmdCompactReplayUnchecked(cat, cmd, txn_id, commit_ts) ==
    IF ~GetTableByName(cat, commit_ts) THEN Failed(cat, "unrecoverable")
    ELSE LET added == AddSegmentReplayWal(cat.segments,
                                          ReplaySegment(WalSegmentInfo(cmd), txn_id, commit_ts))
             cat1 == [cat EXCEPT !.segments = added]
         IN  IF ~\E s \in added : s.id = cmd.dep THEN Failed(cat1, "null_pointer")
             ELSE LET old == CHOOSE s \in added : s.id = cmd.dep
                  IN  Done([cat1 EXCEPT !.segments = (added \ {old}) \cup
                                {[old EXCEPT !.status = "Deprecated",
                                             !.deprecate_ts = commit_ts]}])

WalCmdCompactReplayStatusOnly(cat, cmd, txn_id, commit_ts) ==
    IF ~GetTableByName(cat, commit_ts) THEN Failed(cat, "unrecoverable")
    ELSE LET added == AddSegmentReplayWal(cat.segments,
                                          ReplaySegment(WalSegmentInfo(cmd), txn_id, commit_ts))
             cat1 == [cat EXCEPT !.segments = added]
         IN  IF ~\E s \in added : s.id = cmd.dep THEN Failed(cat1, "null_pointer")
             ELSE LET old == CHOOSE s \in added : s.id = cmd.dep
                  IN  IF ~TrySetCompacting(old) THEN Failed(cat1, "unrecoverable")
                      ELSE Done([cat1 EXCEPT !.segments = (added \ {old}) \cup
                                    {[old EXCEPT !.status = "Deprecated"]}])

\* WalManager::WalCmdCompactReplay with one new segment and one deprecated segment id.
\* GetSegmentByID returns null for an id the table does not hold; the call through
\* the null pointer ends the process.
WalCmdCompactReplay(cat, cmd, txn_id, commit_ts) ==
    IF ~GetTableByName(cat, commit_ts) THEN Failed(cat, "unrecoverable")
    ELSE LET added == AddSegmentReplayWal(cat.segments,
                                          ReplaySegment(WalSegmentInfo(cmd), txn_id, commit_ts))
             cat1 == [cat EXCEPT !.segments = added]
         IN  IF ~\E s \in added : s.id = cmd.dep THEN Failed(cat1, "null_pointer")
             ELSE LET old == CHOOSE s \in added : s.id = cmd.dep
                  IN  IF ~TrySetCompacting(old) THEN Failed(cat1, "unrecoverable")
                      ELSE Done([cat1 EXCEPT !.segments = (added \ {old}) \cup
                                    {[old EXCEPT !.status = "Deprecated",
                                                 !.deprecate_ts = commit_ts]}])

\* The switch of WalManager::ReplayWalEntry on the command type.
ReplayWalCmd(cat, cmd, txn_id, commit_ts) ==
    CASE cmd.type = "CREATE_DATABASE" -> WalCmdCreateDatabaseReplay(cat, txn_id, commit_ts)
      [] cmd.type = "DROP_DATABASE" -> WalCmdDropDatabaseReplay(cat, txn_id, commit_ts)
      [] cmd.type = "CREATE_TABLE" -> WalCmdCreateTableReplay(cat, txn_id, commit_ts)
      [] cmd.type = "DROP_TABLE" -> WalCmdDropTableReplay(cat, txn_id, commit_ts)
      [] cmd.type = "CREATE_INDEX" -> WalCmdCreateIndexReplay(cat, txn_id, commit_ts)
      [] cmd.type = "DROP_INDEX" -> WalCmdDropIndexReplay(cat, txn_id, commit_ts)
      [] cmd.type = "IMPORT" -> WalCmdImportReplay(cat, cmd, txn_id, commit_ts)
      [] cmd.type = "APPEND" -> WalCmdAppendReplay(cat, txn_id, commit_ts)
      [] cmd.type = "DELETE" -> WalCmdDeleteReplay(cat, txn_id, commit_ts)
      [] cmd.type = "COMPACT" -> WalCmdCompactReplay(cat, cmd, txn_id, commit_ts)
      [] OTHER -> Failed(cat, "unrecoverable")

\* The entries handed to ReplayWalEntry: one command each, txn_id and commit_ts of the entry.
TableCmd(type, c) ==
    [type |-> type, seg |-> 0, blocks |-> <<>>, dep |-> 0, txn_id |-> c, commit_ts |-> c]

\* Block infos a segment info can record: a row count and the outline infos
\* (next_idx, last_off) of its columns.
BlockInfos ==
    {[row_count |-> 1, outline_infos |-> <<>>],
     [row_count |-> 2, outline_infos |-> << <<1, 5>> >>],
     [row_count |-> 3, outline_infos |-> << <<1, 5>>, <<2, 7>> >>]}

SegmentBlockInfos == UNION {[1..n -> BlockInfos] : n \in 0..MaxBlocks}

\* Import and Compact commands whose new segment carries the block infos in blocks.
SegmentCmds(blocks) ==
    {[type |-> "IMPORT", seg |-> g, blocks |-> b, dep |-> 0, txn_id |-> c, commit_ts |-> c] :
        g \in SegmentIds, b \in blocks, c \in 1..MaxReplayTs}
    \cup {[type |-> "COMPACT", seg |-> p[1], blocks |-> b, dep |-> p[2], txn_id |-> c,
           commit_ts |-> c] :
            p \in {q \in SegmentIds \X SegmentIds : q[1] # q[2]}, b \in blocks,
            c \in 1..MaxReplayTs}

\* The block infos of the segments in the replayed log: one block with one column.
OneBlock == {<<[row_count |-> 2, outline_infos |-> << <<1, 5>> >>]>>}

ReplayCmds ==
    {TableCmd(t, c) :
        t \in {"CREATE_DATABASE", "DROP_DATABASE", "CREATE_TABLE", "DROP_TABLE", "CREATE_INDEX",
               "DROP_INDEX", "APPEND", "DELETE"}, c \in 1..MaxReplayTs}
    \cup SegmentCmds(OneBlock)

\* WalManager::ReplayWalEntry on one entry of cmds; an error ends the process.
ReplayOneOf(cmds, max) ==
    /\ rerr = "none"
    /\ rcount < max
    /\ \E cmd \in cmds :
         LET r == ReplayWalCmd(rcat, cmd, cmd.txn_id, cmd.commit_ts)
         IN  /\ rcat' = r.cat
             /\ rerr' = r.err
             /\ applied' = applied \cup {cmd}
             /\ rlast' = cmd
    /\ rcount' = rcount + 1
    /\ UNCHANGED <<wal_vars, file_vars, flush_vars, life_vars, txn_vars, bg_vars, fatal, phase,
                   rec, bad_size, flush_option_, cache_vars, hist_vars>>

ReplayCommand == ReplayOneOf(ReplayCmds, MaxReplay)

\* Replay of Import and Compact entries with every recorded shape of segment info.
ReplaySegmentCommand == ReplayOneOf(SegmentCmds(SegmentBlockInfos), MaxSegmentReplay)

\* ------------------------------------------------- the index reader cache
OutsideCache == <<wal_vars, file_vars, flush_vars, life_vars, txn_vars, bg_vars, fatal, phase,
                  rec, bad_size, flush_option_, replay_vars, hist_vars>>

UpdateKnownUpdateTsOverwrite(ts, c) ==
    /\ segment_update_ts' = [segment_update_ts EXCEPT ![c] = ts]
    /\ first_known_update_ts_' = ts
    /\ last_known_update_ts_' = ts
    /\ UNCHANGED <<cache_ts_, cache_column_ts_, cache_column_readers_, column2analyzer_>>

\* TableIndexReaderCache::UpdateKnownUpdateTs after its assertion, for the index on column c.
UpdateKnownUpdateTs(ts, c) ==
    /\ segment_update_ts' = [segment_update_ts EXCEPT ![c] = ts]
    /\ first_known_update_ts_' = Min(first_known_update_ts_, ts)
    /\ last_known_update_ts_' = Max({last_known_update_ts_, ts})
    /\ UNCHANGED <<cache_ts_, cache_column_ts_, cache_column_readers_, column2analyzer_>>

UseCacheNever(begin_ts) == FALSE
UseCacheAfterUpdate(begin_ts) == begin_ts >= cache_ts_
UseCacheUpToFirst(begin_ts) == begin_ts >= cache_ts_ /\ begin_ts <= first_known_update_ts_
\* The test of the fast path.
UseCache(begin_ts) == begin_ts >= cache_ts_ /\ begin_ts < first_known_update_ts_

AdoptAlways(begin_ts) == TRUE
\* The test that makes the freshly built maps the cache.
AdoptCache(begin_ts) == begin_ts >= last_known_update_ts_

\* ColumnIndexReader::Open on the index of column c: the reader holds the segment
\* readers of the index as it is at the call.
Open(c) == [column_id |-> c, segment_readers |-> postings[c]]

\* The index-meta map of the table, in the order of the index names: one full-text
\* index on every column of Columns, and one index of another type on the last column.
IndexMetaMap ==
    [i \in 1..NColumns |-> [index_type |-> "FullText", column_id |-> i - 1]]
        \o <<[index_type |-> "Hnsw", column_id |-> NColumns]>>

\* The loop of the slow path over the first n indexes of the table.  A map holds 0
\* (no reader) or "" (no analyzer) for a column without entry; segment_update_ts holds
\* full_text_segment_update_ts of the full-text index of a column.
RECURSIVE BuildReaders(_)
BuildReaders(n) ==
    IF n = 0
      THEN [column_index_readers |-> [c \in TableColumns |-> 0],
            column2analyzer |-> [c \in TableColumns |-> ""],
            cache_column_ts |-> [c \in TableColumns |-> 0],
            column_readers |-> column_readers]
      ELSE LET prev == BuildReaders(n - 1)
               column_id == IndexMetaMap[n].column_id
               ts == segment_update_ts[column_id]
           IN  IF IndexMetaMap[n].index_type # "FullText" THEN prev
               ELSE IF ~(prev.cache_column_ts[column_id] < ts) THEN prev
               ELSE IF cache_column_ts_[column_id] = ts
                 THEN [prev EXCEPT !.cache_column_ts[column_id] = ts,
                                   !.column2analyzer[column_id] = "standard",
                                   !.column_index_readers[column_id] =
                                       reader_maps[cache_column_readers_][column_id]]
                 ELSE [prev EXCEPT !.cache_column_ts[column_id] = ts,
                                   !.column2analyzer[column_id] = "standard",
                                   !.column_index_readers[column_id] = Len(prev.column_readers) + 1,
                                   !.column_readers = Append(prev.column_readers, Open(column_id))]

IndexReader(readers, analyzers, begin_ts) ==
    [column_index_readers_ |-> readers, column2analyzer_ |-> analyzers, begin_ts |-> begin_ts,
     seen |-> postings]

\* TableIndexReaderCache::GetIndexReader.
GetIndexReader(begin_ts) ==
    IF UseCache(begin_ts)
      THEN /\ handed' = Append(handed, IndexReader(cache_column_readers_, column2analyzer_, begin_ts))
           /\ UNCHANGED <<cache_fields, heap_vars>>
      ELSE LET built == BuildReaders(Len(IndexMetaMap))
               readers == Len(reader_maps) + 1
               analyzers == Len(analyzer_maps) + 1
           IN  /\ column_readers' = built.column_readers
               /\ reader_maps' = Append(reader_maps, built.column_index_readers)
               /\ analyzer_maps' = Append(analyzer_maps, built.column2analyzer)
               /\ handed' = Append(handed, IndexReader(readers, analyzers, begin_ts))
               /\ IF AdoptCache(begin_ts)
                    THEN /\ cache_ts_' = last_known_update_ts_
                         /\ first_known_update_ts_' = TxnTimeStampMax
                         /\ last_known_update_ts_' = 0
                         /\ cache_column_ts_' = built.cache_column_ts
                         /\ cache_column_readers_' = readers
                         /\ column2analyzer_' = analyzers
                    ELSE UNCHANGED cache_fields

\* The timestamps of the index updates committed so far.
UpdateTs == UNION {postings[c] : c \in Columns}

\* A transaction that began at begin_ts opens an index reader.  On the slow path an
\* index entry that the transaction cannot see ends the call with a recoverable
\* error before anything is stored.
GetIndexReaderCall ==
    /\ cache_assert # "aborted"
    /\ Len(handed) < MaxReaders
    /\ \E begin_ts \in (0..now) \ UpdateTs :
         \/ /\ GetIndexReader(begin_ts)
            /\ call' = [op |-> "GetIndexReader", ts |-> begin_ts, column |-> 0]
         \/ /\ ~UseCache(begin_ts)
            /\ call' = [op |-> "RecoverableError", ts |-> begin_ts, column |-> 0]
            /\ UNCHANGED <<cache_fields, heap_vars, handed>>
    /\ UNCHANGED <<segment_update_ts, postings, now, cache_assert, lookups, OutsideCache>>

\* GetIndexReader called with any begin_ts, also one older than cache_ts_.
GetIndexReaderAny ==
    /\ cache_assert # "aborted"
    /\ Len(handed) < MaxReaders
    /\ \E begin_ts \in 0..MaxCallTs :
         \/ /\ GetIndexReader(begin_ts)
            /\ call' = [op |-> "GetIndexReader", ts |-> begin_ts, column |-> 0]
         \/ /\ ~UseCache(begin_ts)
            /\ call' = [op |-> "RecoverableError", ts |-> begin_ts, column |-> 0]
            /\ UNCHANGED <<cache_fields, heap_vars, handed>>
    /\ UNCHANGED <<segment_update_ts, postings, now, cache_assert, lookups, OutsideCache>>

\* A transaction takes the next timestamp without touching a full-text index.
Tick ==
    /\ cache_assert # "aborted"
    /\ now < MaxCacheTs
    /\ now' = now + 1
    /\ call' = [op |-> "Tick", ts |-> now + 1, column |-> 0]
    /\ UNCHANGED <<cache_fields, segment_update_ts, postings, heap_vars, handed, cache_assert,
                   lookups, OutsideCache>>

\* A commit at the next timestamp adds postings to the index of one column and calls
\* UpdateKnownUpdateTs with its commit timestamp.
CommitIndexUpdate ==
    /\ cache_assert # "aborted"
    /\ now < MaxCacheTs
    /\ now' = now + 1
    /\ \E c \in Columns :
         /\ postings' = [postings EXCEPT ![c] = @ \cup {now + 1}]
         /\ UpdateKnownUpdateTs(now + 1, c)
         /\ call' = [op |-> "CommitIndexUpdate", ts |-> now + 1, column |-> c]
    /\ UNCHANGED <<heap_vars, handed, cache_assert, lookups, OutsideCache>>

\* UpdateKnownUpdateTs called with any timestamp.  With ts below segment_update_ts the
\* assertion ends the process in a build with assertions and is skipped in a build
\* without them.
UpdateKnownUpdateTsUpTo(max) ==
    /\ cache_assert # "aborted"
    /\ \E ts \in 0..max, c \in Columns :
         /\ call' = [op |-> "UpdateKnownUpdateTs", ts |-> ts, column |-> c]
         /\ IF ts >= segment_update_ts[c]
              THEN UpdateKnownUpdateTs(ts, c) /\ UNCHANGED cache_assert
              ELSE \/ cache_assert' = "aborted" /\ UNCHANGED <<cache_fields, segment_update_ts>>
                   \/ cache_assert' = "ignored" /\ UpdateKnownUpdateTs(ts, c)
    /\ UNCHANGED <<postings, heap_vars, now, handed, lookups, OutsideCache>>

UpdateKnownUpdateTsCall == UpdateKnownUpdateTsUpTo(MaxCacheTs)

\* IndexReader::GetColumnIndexReader(column_id): operator[] on the shared reader map
\* returns the entry of column_id and, if the map has none, inserts a null one first.
GetColumnIndexReader(map, column_id) ==
    IF map[column_id] = 0 THEN [map EXCEPT ![column_id] = NullReader] ELSE map

\* The holder of reader i calls GetColumnIndexReader(c); no mutex is taken.
GetColumnIndexReaderBegin ==
    /\ cache_assert # "aborted"
    /\ Len(lookups) < MaxLookups
    /\ \E i \in DOMAIN handed, c \in TableColumns :
         /\ handed[i].column_index_readers_ # NullMap
         /\ lookups' = Append(lookups, [reader |-> i, column_id |-> c, done |-> FALSE])
    /\ UNCHANGED <<cache_fields, segment_update_ts, postings, heap_vars, now, handed, call,
                   cache_assert, OutsideCache>>

\* What two unsynchronised calls on one map, one of them inserting, can leave at
\* the two columns: a data race, so any of no entry, a null entry, the old entry.
RaceOutcomes(map, c, d) ==
    {g \in [TableColumns -> {0, NullReader} \cup {map[x] : x \in TableColumns}] :
        \A x \in TableColumns \ {c, d} : g[x] = map[x]}

\* The call returns.  It has read, and written if column_id had no entry, the map
\* of its reader; a call of another holder on the same map that overlaps it and
\* writes too, or while this one writes, is a data race.
GetColumnIndexReaderEnd ==
    /\ cache_assert # "aborted"
    /\ \E k \in DOMAIN lookups :
         /\ ~lookups[k].done
         /\ lookups' = [lookups EXCEPT ![k].done = TRUE]
         /\ LET m == handed[lookups[k].reader].column_index_readers_
                c == lookups[k].column_id
                others == {j \in DOMAIN lookups \ {k} :
                             /\ ~lookups[j].done
                             /\ handed[lookups[j].reader].column_index_readers_ = m
                             /\ (reader_maps[m][c] = 0 \/ reader_maps[m][lookups[j].column_id] = 0)}
            IN  IF others = {}
                  THEN reader_maps' = [reader_maps EXCEPT ![m] = GetColumnIndexReader(@, c)]
                  ELSE \E j \in others :
                         \E g \in RaceOutcomes(reader_maps[m], c, lookups[j].column_id) :
                            reader_maps' = [reader_maps EXCEPT ![m] = g]
    /\ UNCHANGED <<cache_fields, segment_update_ts, postings, column_readers, analyzer_maps, now,
                   handed, call, cache_assert, OutsideCache>>

\* ------------------------------------------------------------ specification
\* The manager's life cycle with committing transactions and the flush thread.
Next ==
    \/ Start
    \/ \E s \in Stoppers : StopCas(s) \/ StopEnqueue(s) \/ StopJoin(s)
    \/ \E u \in Users : BeginTxn(u) \/ TxnCommitLock(u) \/ TxnPutEntry(u) \/ TxnFinish(u)
    \/ Flush

Spec == Init /\ [][Next]_vars

\* A manager that is never stopped, with checkpoints, crash and recovery.
NextCkp ==
    \/ Start /\ start_calls = 0
    \/ \E u \in Users : BeginTxn(u) \/ TxnCommitLock(u) \/ TxnPutEntry(u) \/ TxnFinish(u)
    \/ Flush
    \/ SubmitCheckpoint
    \/ Background
    \/ CrashRecover

SpecCkp == Init /\ [][NextCkp]_vars

\* A started manager without user transactions: the periodic trigger offers
\* checkpoint tasks, the background processor runs them, the flush thread writes
\* their entries; both threads are scheduled fairly.
NextAttempt ==
    \/ Start /\ start_calls = 0
    \/ running_ /\ SubmitCheckpoint
    \/ Background
    \/ Flush

SpecAttempt == Init /\ [][NextAttempt]_vars /\ WF_vars(Background) /\ WF_vars(Flush)

\* A manager that is never stopped: the flush thread is scheduled fairly.
NextLive ==
    \/ Start
    \/ \E u \in Users : BeginTxn(u) \/ TxnCommitLock(u) \/ TxnPutEntry(u) \/ TxnFinish(u)
    \/ Flush

SpecLive == Init /\ [][NextLive]_vars /\ WF_vars(Flush)

\* The life cycle with the flush thread and the threads inside Stop scheduled fairly.
SpecStop ==
    /\ Init /\ [][Next]_vars
    /\ WF_vars(Flush)
    /\ \A s \in Stoppers : WF_vars(StopEnqueue(s) \/ StopJoin(s))

\* The life cycle with entries whose size estimate may be wrong.
SpecSize == InitSize /\ [][Next]_vars

\* The life cycle under each flush option.
SpecOption == InitOption /\ [][Next]_vars

\* Checkpoints forced by a caller with a max_commit_ts of its choice.
NextForce ==
    \/ ForceCheckpoint
    \/ CheckpointInner
    \/ ForceReturn

SpecForce == Init /\ [][NextForce]_vars

\* Commands replayed one after the other into the catalog a checkpoint left.
NextReplay == ReplayCommand

SpecReplay == Init /\ [][NextReplay]_vars

\* Import and Compact entries replayed into the catalog a checkpoint left.
NextSegment == ReplaySegmentCommand

SpecSegment == Init /\ [][NextSegment]_vars

\* Commands replayed into a catalog whose table holds a segment in any status.
SpecCompact == InitSegments /\ [][NextReplay]_vars

\* Index updates commit and transactions open index readers.
NextCache == Tick \/ CommitIndexUpdate \/ GetIndexReaderCall

SpecCache == Init /\ [][NextCache]_vars

\* UpdateKnownUpdateTs is called with any timestamp between reader calls.
NextWindow == UpdateKnownUpdateTsCall \/ GetIndexReaderCall

SpecWindow == Init /\ [][NextWindow]_vars

\* The two operations of the cache called in any order with any timestamps.
NextCalls == UpdateKnownUpdateTsUpTo(MaxCallTs) \/ GetIndexReaderAny

SpecCalls == Init /\ [][NextCalls]_vars

\* The cache with the holders of readers looking column readers up.
NextReaders ==
    \/ CommitIndexUpdate
    \/ GetIndexReaderCall
    \/ GetColumnIndexReaderBegin
    \/ GetColumnIndexReaderEnd

SpecReaders == Init /\ [][NextReaders]_vars

\* Commands replayed into a catalog without the table.
SpecNoTable == InitNoTable /\ [][NextReplay]_vars

\* ------------------------------------------------------------------ properties
\* The entries a crash left durable, in the order they were written.
DurableLog == SubSeq(written, 1, rec.durable)
\* The entries still present in some file of wal_dir_.
OnDisk == Range(wal_log) \cup UNION {Range(f.entries) : f \in rolled}
\* The position in the log of the entry of transaction id.
Pos(id) == CHOOSE j \in 1..Len(written) : written[j].txn_id = id
IsWritten(id) == \E j \in 1..Len(written) : written[j].txn_id = id
IsFlushed(id) == \E j \in 1..Min(flushed_upto, Len(written)) : written[j].txn_id = id
\* max_commit_ts of the newest Checkpoint command of the durable log.
NewestCkpMax ==
    LET at == Max({j \in 1..rec.durable : written[j].ckp}) IN written[at].ckp_max

\* C1: recovery is prefix-exact.  After a crash whose durable log holds a Checkpoint
\* command, ReplayWalFile succeeds, installs the effect of every durable user entry
\* with commit_ts greater than that checkpoint's max_commit_ts, and installs no
\* effect of an entry that is not in the durable log.
C1_RecoveryPrefixExact ==
    (/\ phase = "recovered"
     /\ ~ckp_failed
     /\ \E j \in 1..rec.durable : written[j].ckp)
    => /\ rec.status = "ok"
       /\ \A j \in 1..rec.durable :
            (~written[j].ckp /\ written[j].commit_ts > NewestCkpMax)
               => written[j].commit_ts \in rec.catalog
       /\ rec.catalog \subseteq {written[j].commit_ts : j \in 1..rec.durable}

\* C2: CommitBottom has run only for entries that were written to the log file and
\* covered by a flush.
C2_CommitBottomAfterFlush ==
    \A i \in 1..Len(commit_bottoms) : IsFlushed(commit_bottoms[i])

C2_Witness ==
    /\ commit_bottoms # <<>>
    /\ fpc = "commit"
    /\ flushed_upto = Len(written)

\* C3: transactions are finalized in WAL order.  CommitBottom calls follow the order
\* in which the entries were written, and when CommitBottom has run for an entry it
\* has run for every entry written before it.
C3_FinalizedInWalOrder ==
    /\ \A i, k \in 1..Len(commit_bottoms) :
          i < k => Pos(commit_bottoms[i]) < Pos(commit_bottoms[k])
    /\ \A j1, j2 \in 1..Len(written) :
          (j1 < j2 /\ written[j2].txn_id \in Range(commit_bottoms))
             => written[j1].txn_id \in Range(commit_bottoms)

C3_Witness ==
    /\ Len(commit_bottoms) = 2
    /\ fpc = "swap"
    /\ wal_log = written
    /\ Len(written) = 2

\* C4: the entries the flusher writes have strictly increasing commit_ts.
C4_WalOrderStrict ==
    \A i, j \in 1..Len(written) : i < j => written[i].commit_ts < written[j].commit_ts

\* Two written entries of concurrent transactions: the one begun later committed first.
C4_Witness ==
    /\ Len(written) = 2
    /\ written[1].txn_id > written[2].txn_id

\* C5: when the flush thread has terminated, every entry enqueued before the
\* terminate entry was written, flushed and finalized by CommitBottom.
C5_StopDrainsQueue ==
    (fpc = "exited" /\ sentinels > 0)
    => \A id \in pre_stop : IsFlushed(id) /\ id \in Range(commit_bottoms)

\* C6: commit liveness.  Every entry enqueued by PutEntry is eventually written,
\* flushed and followed by CommitBottom of its transaction.
C6_CommitLiveness ==
    \A u \in Users :
        (ttxn[u] # 0 /\ ttxn[u] \in Range(put_log))
           ~> (IsFlushed(ttxn[u]) /\ ttxn[u] \in Range(commit_bottoms))

C6_Witness ==
    \A u \in Users : tpc[u] = "done" /\ ttxn[u] \in Range(commit_bottoms)

\* C7: Stop is idempotent.  At most one Stop call wins the compare-exchange, and only
\* on a started manager; exactly the winner enqueues one terminate entry, joins and
\* closes; a Start call on a running manager changes nothing.
StopWinners == {s \in Stoppers : spc[s] \in {"enqueue", "join", "stopped"}}
StartOnRunning == start_calls' = start_calls + 1 /\ running_

C7_StopOnce ==
    /\ Cardinality(StopWinners) <= 1
    /\ StopWinners # {} => fpc # "none"
    /\ sentinels = Cardinality({s \in Stoppers : spc[s] \in {"join", "stopped"}})
    /\ joins = Cardinality({s \in Stoppers : spc[s] = "stopped"})
    /\ closes = joins
    /\ Cardinality({i \in 1..Len(blocking_queue_) : blocking_queue_[i] = NilEntry})
         + Cardinality({i \in 1..Len(log_batch) : log_batch[i] = NilEntry}) <= 1

C7_StopIdempotent ==
    /\ []C7_StopOnce
    /\ [][StartOnRunning => UNCHANGED <<wal_vars, file_vars, flush_vars, spc, sentinels, joins,
                                        closes, txn_vars, bg_vars, proc_vars, hist_vars>>]_vars

C7_Witness ==
    /\ start_calls = 2
    /\ \E s1, s2 \in Stoppers : spc[s1] = "stopped" /\ spc[s2] = "returned"

\* C8: at most one checkpoint is in progress.  At most one task is queued or running
\* in CheckpointInner, and then checkpoint_in_progress_ is set.
CheckpointsInProgress == Len(bg_queue) + (IF bpc = "inner" THEN 1 ELSE 0)

C8_AtMostOneCheckpoint ==
    /\ CheckpointsInProgress <= 1
    /\ CheckpointsInProgress = 1 => checkpoint_in_progress_

\* Both offers of the periodic trigger were made and one checkpoint is running while
\* no other was ever taken: the second offer was refused.
C8_Witness ==
    /\ submits = 2
    /\ bpc = "inner"
    /\ bg_queue = <<>>
    /\ next_txn_id = 1
    /\ checkpoint_in_progress_

\* C9: a checkpoint whose txn->Checkpoint returns false or fails with a recoverable
\* error leaves last_ckp_ts_, last_full_ckp_ts_, last_ckp_wal_size_ and all files as
\* they were.
C9_FailedCheckpointChangesNothing ==
    [][(bpc = "inner" /\ ckp_outcome' \in {"false", "recoverable"})
         => UNCHANGED <<last_ckp_ts_, last_full_ckp_ts_, last_ckp_wal_size_, rolled,
                        catalog_files>>]_vars

\* C10: recycling never breaks recoverability.  Once a Checkpoint command was durable
\* and a full checkpoint has recycled WAL files, a crash at any point is followed by a
\* recovery that finds a checkpoint with its catalog files and reproduces every
\* committed effect.
C10_RecyclingKeepsRecoverable ==
    (/\ phase = "recovered"
     /\ ~ckp_failed
     /\ last_full_ckp_ts_ # UNCOMMIT_TS
     /\ \E j \in 1..rec.durable : written[j].ckp
     /\ \E j \in 1..rec.durable : written[j] \notin OnDisk /\ written[j].commit_ts <= last_full_ckp_ts_)
    => /\ rec.status = "ok"
       /\ catalog \subseteq rec.catalog

\* C11: only full checkpoints recycle files and advance last_full_ckp_ts_.  A
\* successful delta checkpoint leaves last_full_ckp_ts_ unchanged and removes no
\* rolled WAL file and no catalog file; a successful full checkpoint at T sets
\* last_full_ckp_ts_ = T and removes exactly the rolled WAL files with
\* max_commit_ts <= T and the older catalog files with ts <= T.
C11_OnlyFullRecycles ==
    [][(bpc = "inner" /\ ckp_outcome' = "ok")
         => IF btask.is_full
              THEN /\ last_full_ckp_ts_' = btask.max_commit_ts
                   /\ rolled' = {f \in rolled : f.name > btask.max_commit_ts}
                   /\ catalog_files \ catalog_files'
                        = {f \in catalog_files : f.ts <= btask.max_commit_ts}
              ELSE /\ UNCHANGED last_full_ckp_ts_
                   /\ rolled \subseteq rolled'
                   /\ catalog_files \subseteq catalog_files']_vars

\* The checkpoint state and the files CheckpointInner may touch.
CkpStateUnchanged ==
    UNCHANGED <<last_ckp_ts_, last_full_ckp_ts_, last_ckp_wal_size_, rolled, catalog_files>>

\* C12 as stated: every checkpoint requested with max_commit_ts <= last_ckp_ts_ raises
\* an unrecoverable error and updates no checkpoint state.
C12_AtOrBelowLastIsFatal ==
    [][(bpc = "inner" /\ bpc' # "inner" /\ last_ckp_ts_ # UNCOMMIT_TS
          /\ btask.max_commit_ts <= last_ckp_ts_)
         => (fatal' /\ CkpStateUnchanged)]_vars

\* C12, amended: a delta checkpoint requested with max_commit_ts < last_ckp_ts_, and a
\* full checkpoint requested with max_commit_ts < last_ckp_ts_ and different from
\* last_full_ckp_ts_, raise an unrecoverable error and update no checkpoint state; a
\* delta checkpoint at last_ckp_ts_ and a full checkpoint at last_full_ckp_ts_ are
\* skipped without an error and without an update.
C12_BelowLastIsFatal ==
    [][(bpc = "inner" /\ bpc' # "inner")
         => LET T == btask.max_commit_ts
                below == IF btask.is_full
                           THEN last_ckp_ts_ # UNCOMMIT_TS /\ T < last_ckp_ts_
                                  /\ T # last_full_ckp_ts_
                           ELSE T < last_ckp_ts_
                same == T = (IF btask.is_full THEN last_full_ckp_ts_ ELSE last_ckp_ts_)
            IN  /\ below => (fatal' /\ bpc' = "aborted" /\ CkpStateUnchanged)
                /\ same => (~fatal' /\ ckp_outcome' = "skip" /\ CkpStateUnchanged)]_vars

\* An unrecoverable error raised for a request below an earlier checkpoint.
C12_Witness ==
    /\ fatal
    /\ ckp_outcome = "precheck_error"
    /\ last_ckp_ts_ # UNCOMMIT_TS
    /\ btask.max_commit_ts < last_ckp_ts_

\* The flusher's step that ends a batch, and the size difference it tests.
AtTrigger == fpc = "trigger" /\ fpc' = "loop"
WalBytesSinceCkp == wal_size_ - last_ckp_wal_size_

\* What the flusher's trigger step does to the task queue.
TriggerStep ==
    AtTrigger =>
        IF WalBytesSinceCkp > cfg_delta_checkpoint_interval_wal_bytes_ /\ ~checkpoint_in_progress_
          THEN bg_queue' = Append(bg_queue, FALSE) /\ checkpoint_in_progress_'
          ELSE UNCHANGED <<bg_queue, checkpoint_in_progress_>>

\* Rotation leaves wal_size_ alone; only a successful checkpoint sets last_ckp_wal_size_.
WalSizeSteps ==
    /\ (fpc = "swap" /\ fpc' = "trigger") => UNCHANGED wal_size_
    /\ (last_ckp_wal_size_' # last_ckp_wal_size_)
          => (bpc = "inner" /\ ckp_outcome' = "ok" /\ last_ckp_wal_size_' = btask.wal_size)

\* C13 as stated: after a batch the flusher submits a delta checkpoint task exactly
\* when wal_size_ - last_ckp_wal_size_ > delta_checkpoint_interval_wal_bytes.
C13_SubmittedExactlyWhenOver ==
    [][AtTrigger
         => ((bg_queue' # bg_queue)
               <=> WalBytesSinceCkp > cfg_delta_checkpoint_interval_wal_bytes_)]_vars

\* C13, amended: after a batch the flusher submits a delta checkpoint task exactly
\* when wal_size_ - last_ckp_wal_size_ > delta_checkpoint_interval_wal_bytes and no
\* checkpoint is in progress; wal_size_ counts the bytes written since Start and is
\* not changed by rotation; last_ckp_wal_size_ changes only when txn->Checkpoint
\* succeeded, to the wal_size of that checkpoint.
C13_DeltaTrigger ==
    /\ [](fpc # "none" => wal_size_ = Len(written) * EntrySize)
    /\ [][TriggerStep /\ WalSizeSteps]_vars

\* A task submitted by the flusher alone, after the log was rotated.
C13_Witness ==
    /\ fpc = "loop"
    /\ submits = 0
    /\ bg_queue = <<FALSE>>
    /\ rolled # {}
    /\ WalBytesSinceCkp > cfg_delta_checkpoint_interval_wal_bytes_

\* The entries of the files of wal_dir_, oldest file first, the active wal.log last.
RECURSIVE FilesOldestFirst(_)
FilesOldestFirst(files) ==
    IF files = {} THEN <<>>
    ELSE LET newest == CHOOSE f \in files : \A g \in files : g.name <= f.name
         IN  FilesOldestFirst(files \ {newest}) \o newest.entries
AllFiles == FilesOldestFirst(rolled) \o wal_log

\* The rotation check of the flusher, after the batch was finalized.
RotationStep ==
    (fpc = "swap" /\ fpc' = "trigger") =>
        IF Len(wal_log) * EntrySize > cfg_wal_size_threshold_
          THEN /\ rolled' = rolled \cup {[name |-> max_commit_ts_, entries |-> wal_log]}
               /\ \A f \in rolled : f.name < max_commit_ts_
               /\ wal_log' = <<>>
               /\ log_batch = <<>>
               /\ flushed_upto' = Len(written)
          ELSE UNCHANGED <<rolled, wal_log>>

C15_SizeMismatchIsFatal ==
    /\ [](/\ \A j \in 1..Len(written) : written[j].txn_id \notin bad_size
          /\ \A id \in Range(commit_bottoms) : id \notin bad_size
          /\ fatal => (fpc = "write" /\ log_batch[bidx].txn_id \in bad_size))
    /\ [][(fatal' /\ ~fatal)
            => UNCHANGED <<wal_log, written, max_commit_ts_, wal_size_, commit_bottoms>>]_vars

\* The second entry of a batch fails the size check after the first was written.
C15_Witness ==
    /\ fatal
    /\ bidx = 2
    /\ Len(written) = 1
    /\ log_batch[2].txn_id \in bad_size
    /\ max_commit_ts_ = written[1].commit_ts

\* The entries the files held when the process died, oldest first.
DiskAtCrash == SubSeq(AllFiles, 1, Len(AllFiles) - (Len(written) - rec.durable))

\* C16: recovery with no WAL file initializes a new catalog and returns 0 without
\* replaying anything; recovery over a non-empty WAL without a Checkpoint command
\* ends with 'No checkpoint found in wal', no catalog attached, nothing replayed.
C16_NoWalOrNoCheckpoint ==
    phase = "recovered" =>
      /\ (fpc = "none" /\ rolled = {})
            => (rec.status = "new" /\ rec.system_start_ts = 0 /\ rec.replayed = <<>>
                  /\ rec.catalog = {})
      /\ (DiskAtCrash # <<>> /\ \A j \in 1..Len(DiskAtCrash) : ~DiskAtCrash[j].ckp)
            => (rec.status = "no_checkpoint" /\ rec.replayed = <<>> /\ rec.catalog = {})

\* A crash that left user entries in a rolled file and no Checkpoint command.
C16_Witness ==
    /\ phase = "recovered"
    /\ rec.status = "no_checkpoint"
    /\ rolled # {}
    /\ rec.durable = Len(written)
    /\ \A j \in 1..Len(written) : ~written[j].ckp

\* The newest Checkpoint command on disk at the crash, and the start of the run of
\* entries before it that are newer than its max_commit_ts.
NewestCkpAt == Max({j \in 1..Len(DiskAtCrash) : DiskAtCrash[j].ckp})
RunStart ==
    LET k == NewestCkpAt
        T == DiskAtCrash[k].ckp_max
    IN  CHOOSE r \in 1..k :
          /\ \A j \in r..(k - 1) : DiskAtCrash[j].commit_ts > T
          /\ \A q \in 1..(r - 1) : \E j \in q..(k - 1) : DiskAtCrash[j].commit_ts <= T

\* C17: replay set and order.  A recovery that succeeds replays exactly the run of
\* entries before the newest Checkpoint command whose commit_ts is greater than its
\* max_commit_ts, followed by every entry after that command; not the command's own
\* entry, no entry with commit_ts <= max_commit_ts; each once, commit_ts ascending.
C17_ReplaySetAndOrder ==
    (phase = "recovered" /\ rec.status = "ok") =>
      LET D == DiskAtCrash
          k == NewestCkpAt
          R == rec.replayed
      IN  /\ R = SubSeq(D, RunStart, k - 1) \o SubSeq(D, k + 1, Len(D))
          /\ \A i, j \in 1..Len(R) : i < j => R[i].commit_ts < R[j].commit_ts
          /\ \A i \in 1..Len(R) : R[i] # D[k] /\ R[i].commit_ts > D[k].ckp_max

\* Replayed: an entry older than the checkpoint entry and one newer, not the
\* checkpoint entry between them.
C17_Witness ==
    /\ phase = "recovered"
    /\ rec.status = "ok"
    /\ RunStart < NewestCkpAt
    /\ NewestCkpAt < Len(DiskAtCrash)
    /\ Len(rec.replayed) = Len(DiskAtCrash) - RunStart

\* C18: the value ReplayWalFile returns and stores in max_commit_ts_ is at least the
\* commit_ts of every entry in the WAL files, the Checkpoint entry included.
C18_ReturnsMaxCommitTs ==
    (phase = "recovered" /\ rec.status = "ok") =>
      \A j \in 1..Len(DiskAtCrash) : DiskAtCrash[j].commit_ts <= rec.system_start_ts

\* C19: transaction ids stay monotonic across recovery.  The value ReplayWalFile
\* stores in the catalog's next_txn_id_ is at least the txn_id of every entry in the
\* WAL files, the Checkpoint entry included.
C19_NextTxnIdCoversWal ==
    (phase = "recovered" /\ rec.status = "ok") =>
      \A j \in 1..Len(DiskAtCrash) : DiskAtCrash[j].txn_id <= rec.last_txn_id

\* C20: replay is idempotent.  Replaying an entry a second time, right after it was
\* replayed into the catalog with the same (txn_id, commit_ts), leaves the catalog as
\* the first replay left it and raises no error, for every command type.
C20_ReplayIdempotent ==
    [][(rcount' = rcount + 1 /\ rlast' = rlast)
         => (rcat' = rcat /\ rerr' = "none")]_vars

\* The replay so far was CreateTable at c1, then DropTable at c2, without error.
CreatedThenDropped(c1, c2) ==
    /\ rcount = 2 /\ rerr = "none"
    /\ rlast = TableCmd("DROP_TABLE", c2)
    /\ applied = {TableCmd("CREATE_TABLE", c1), TableCmd("DROP_TABLE", c2)}

SnapshotTs == 0..(MaxReplayTs + 1)

\* C21: after replaying CreateTable at c1 and then DropTable at c2 > c1 into a catalog
\* without the table, the table is visible exactly to the snapshots c1 <= snap_ts < c2,
\* to none at or after c2, and the two versions carry the commit_ts of their entries.
C21_CreateThenDropVisibility ==
    \A c1, c2 \in 1..MaxReplayTs :
       (c1 < c2 /\ CreatedThenDropped(c1, c2))
         => /\ \A snap_ts \in SnapshotTs :
                  Visible(rcat.table, snap_ts) <=> (c1 <= snap_ts /\ snap_ts < c2)
            /\ rcat.table = <<Version(c2, c2, TRUE), Version(c1, c1, FALSE)>>

\* CreateTable at 1 and DropTable at 3 were replayed: a gap of one timestamp between them.
C21_Witness == CreatedThenDropped(1, 3)

\* The segments an Import or Compact entry installed in this step.
Reconstructed(seg) ==
    /\ rcount' = rcount + 1
    /\ rlast'.type \in {"IMPORT", "COMPACT"}
    /\ seg \in rcat'.segments \ rcat.segments
    /\ seg.id = rlast'.seg

BlockAsRecorded(block, block_id, block_info, commit_ts) ==
    /\ block.block_id = block_id
    /\ block.row_count = block_info.row_count
    /\ block.commit_ts = commit_ts /\ block.checkpoint_ts = commit_ts
    /\ block.checkpoint_row_count = block.row_count
    /\ Len(block.columns) = Len(block_info.outline_infos)
    /\ \A m \in 1..Len(block.columns) :
          /\ block.columns[m].column_id = m - 1
          /\ block.columns[m].next_idx = block_info.outline_infos[m][1]
          /\ block.columns[m].last_off = block_info.outline_infos[m][2]

SegmentAsRecorded(seg, cmd) ==
    /\ seg.status = "Sealed"
    /\ seg.min_row_ts = cmd.commit_ts /\ seg.max_row_ts = cmd.commit_ts
    /\ seg.commit_ts = cmd.commit_ts
    /\ seg.deprecate_ts = UNCOMMIT_TS
    /\ Len(seg.blocks) = Len(cmd.blocks)
    /\ \A n \in 1..Len(seg.blocks) :
          BlockAsRecorded(seg.blocks[n], n - 1, cmd.blocks[n], cmd.commit_ts)

\* C30: the segment that the replay of an Import or Compact entry reconstructs is
\* Sealed, has min_row_ts = max_row_ts = commit_ts of the entry and no deprecate_ts,
\* one block per recorded block info with ids 0..n-1 in the recorded order, each block
\* with commit_ts = checkpoint_ts = commit_ts of the entry and checkpoint_row_count =
\* row_count, and one column per outline info with ids 0..m-1 and the recorded
\* (next_idx, last_off).
C30_ReplayedSegment ==
    [][\A seg \in rcat'.segments : Reconstructed(seg) => SegmentAsRecorded(seg, rlast')]_vars

\* An Import installed a segment of two blocks, the second with two columns.
C30_Witness ==
    /\ rlast.type = "IMPORT" /\ rerr = "none"
    /\ \E seg \in rcat.segments :
          /\ seg.id = rlast.seg /\ seg.commit_ts = rlast.commit_ts
          /\ Len(seg.blocks) = 2 /\ Len(seg.blocks[2].columns) = 2

\* This step replays a Compact entry whose deprecated segment id names seg, and seg
\* is in the table in a status other than Sealed.
CompactOfUncompactable(seg) ==
    /\ rcount' = rcount + 1
    /\ rlast'.type = "COMPACT"
    /\ seg \in rcat.segments
    /\ seg.id = rlast'.dep
    /\ seg.status # "Sealed"

\* C22: replaying a Compact entry that deprecates a segment which is not Sealed
\* (Unsealed, Compacting or already Deprecated) raises an unrecoverable error, and
\* the segment keeps its status and deprecate_ts.
C22_UncompactableIsFatal ==
    [][\A seg \in rcat.segments :
          CompactOfUncompactable(seg) => (rerr' = "unrecoverable" /\ seg \in rcat'.segments)]_vars

\* A Compact entry on a visible table failed on a segment that is Compacting.
C22_Witness ==
    /\ rlast.type = "COMPACT" /\ rerr = "unrecoverable"
    /\ GetTableByName(rcat, rlast.commit_ts)
    /\ \E seg \in rcat.segments : seg.id = rlast.dep /\ seg.status = "Compacting"

\* This step is a call of GetIndexReader; its result is the last reader handed out.
ReaderStep == Len(handed') = Len(handed) + 1
Returned == handed'[Len(handed')]

\* The objects that exist keep their contents: maps and readers are only added.
ObjectsKept ==
    /\ Len(reader_maps') >= Len(reader_maps)
    /\ SubSeq(reader_maps', 1, Len(reader_maps)) = reader_maps
    /\ Len(analyzer_maps') >= Len(analyzer_maps)
    /\ SubSeq(analyzer_maps', 1, Len(analyzer_maps)) = analyzer_maps
    /\ Len(column_readers') >= Len(column_readers)
    /\ SubSeq(column_readers', 1, Len(column_readers)) = column_readers

\* C23: on the fast path (begin_ts >= cache_ts_ and begin_ts < first_known_update_ts_)
\* the returned reader shares the cached reader map and analyzer map, no column reader
\* is constructed, and every cache field and cached map is left as it was.
C23_FastPathSharesCache ==
    [][(ReaderStep /\ Returned.begin_ts >= cache_ts_
                   /\ Returned.begin_ts < first_known_update_ts_)
         => /\ Returned.column_index_readers_ = cache_column_readers_
            /\ Returned.column2analyzer_ = column2analyzer_
            /\ UNCHANGED <<cache_fields, heap_vars>>]_vars

\* Two readers handed out share one reader map: the second came from the cache.
C23_Witness ==
    \E i, j \in DOMAIN handed :
       /\ i < j
       /\ handed[i].column_index_readers_ = handed[j].column_index_readers_
       /\ handed[i].column2analyzer_ = handed[j].column2analyzer_

\* C24: on the slow path, a call with begin_ts >= last_known_update_ts_ makes the
\* freshly built maps the cache and resets the window to (+infinity, 0); a call with
\* begin_ts < last_known_update_ts_ returns the fresh maps to the caller only and
\* leaves every cache field and cached map unchanged.
C24_SlowPathAdoption ==
    [][(ReaderStep /\ ~(Returned.begin_ts >= cache_ts_
                        /\ Returned.begin_ts < first_known_update_ts_))
         => /\ Returned.column_index_readers_ = Len(reader_maps) + 1
            /\ Returned.column2analyzer_ = Len(analyzer_maps) + 1
            /\ ObjectsKept
            /\ IF Returned.begin_ts >= last_known_update_ts_
                 THEN /\ cache_column_readers_' = Returned.column_index_readers_
                      /\ column2analyzer_' = Returned.column2analyzer_
                      /\ first_known_update_ts_' = TxnTimeStampMax
                      /\ last_known_update_ts_' = 0
                 ELSE UNCHANGED cache_fields]_vars

\* The window was reset by an adoption, and the reader returned last is not the cache:
\* it was built for a snapshot below last_known_update_ts_.
C24_Witness ==
    /\ call.op = "GetIndexReader"
    /\ first_known_update_ts_ # 0
    /\ call.ts < last_known_update_ts_
    /\ handed[Len(handed)].column_index_readers_ # cache_column_readers_

\* C25: UpdateKnownUpdateTs(ts) only widens the window: first_known_update_ts_ becomes
\* min(first, ts), last_known_update_ts_ becomes max(last, ts), segment_update_ts of
\* the index becomes ts, and cache_ts_, cache_column_ts_ and the cached maps stay; a
\* call with ts below segment_update_ts violates the assertion.
C25_UpdateWidensWindow ==
    [][(call'.op = "UpdateKnownUpdateTs")
         => /\ (call'.ts < segment_update_ts[call'.column]) => (cache_assert' # "ok")
            /\ (call'.ts >= segment_update_ts[call'.column]) => (cache_assert' = cache_assert)
            /\ (cache_assert' # "aborted")
                  => /\ first_known_update_ts_' = Min(first_known_update_ts_, call'.ts)
                     /\ last_known_update_ts_' = Max({last_known_update_ts_, call'.ts})
                     /\ segment_update_ts'[call'.column] = call'.ts
                     /\ UNCHANGED <<cache_ts_, cache_column_ts_, cache_column_readers_,
                                    column2analyzer_, heap_vars>>]_vars

\* The window was widened on both sides, then a call went below segment_update_ts.
C25_Witness ==
    /\ cache_assert = "aborted"
    /\ 0 < first_known_update_ts_ /\ first_known_update_ts_ < last_known_update_ts_

\* Reader j was opened after reader i, an update of column c at T1 committed between
\* them, and their snapshots are begin_ts of i < T1 < begin_ts of j.
UpdatedBetween(i, j, c, T1) ==
    /\ i < j
    /\ T1 \in handed[j].seen[c] \ handed[i].seen[c]
    /\ handed[i].begin_ts < T1 /\ T1 < handed[j].begin_ts

\* The column reader a reader holds for column c; 0 for none.
ColumnReaderOf(reader, c) ==
    IF reader.column_index_readers_ = NullMap THEN 0
    ELSE reader_maps[reader.column_index_readers_][c]

Fresh(i, j, c, T1) ==
    /\ ColumnReaderOf(handed[j], c) # 0
    /\ T1 \in column_readers[ColumnReaderOf(handed[j], c)].segment_readers
    /\ ColumnReaderOf(handed[j], c) # ColumnReaderOf(handed[i], c)

\* C26: with a reader R0 opened at T0, an update committed at T1 > T0 and a reader R2
\* opened at T2 > T1, the column reader of R2 for the updated column holds the postings
\* of T1 and is not the reader R0 holds; the maps and readers R0 holds are never modified.
C26_ReaderCacheFreshness ==
    /\ [](\A i, j \in DOMAIN handed : \A c \in Columns : \A T1 \in 1..MaxCacheTs :
             UpdatedBetween(i, j, c, T1) => Fresh(i, j, c, T1))
    /\ [][ObjectsKept]_vars

\* R0 at 0 holds a column reader, column 0 was updated at 2, R2 was opened at 3.
C26_Witness ==
    /\ Len(handed) >= 2
    /\ \E i, j \in DOMAIN handed :
          /\ UpdatedBetween(i, j, 0, 2)
          /\ ColumnReaderOf(handed[i], 0) # 0

\* C27: no column reader of a reader handed out for begin_ts holds postings of an
\* update with a timestamp above begin_ts, on the fast path and on the slow path.
C27_TransactionConsistent ==
    \A i \in DOMAIN handed : \A c \in Columns :
       ColumnReaderOf(handed[i], c) # 0
         => \A ts \in column_readers[ColumnReaderOf(handed[i], c)].segment_readers :
               ts <= handed[i].begin_ts

\* The flusher goes from the write loop to the commit loop: the batch had no
\* terminating entry and the switch on flush_option_ ran.
BatchSwitchStep == fpc = "sync" /\ fpc' = "commit"

FlushAtOnceStep ==
    /\ BatchSwitchStep => (flushed_upto' = Len(written))
    /\ (fpc \in {"write", "commit"}) => (flushed_upto' = flushed_upto)

OnlyWriteStep ==
    (fpc \in {"write", "sync", "commit"}) => (flushed_upto' = flushed_upto)

\* C28: the flush option is honoured per batch.  Under FlushAtOnce the flusher issues
\* one flush per non-terminating batch, after the entries of the batch are written and
\* before any CommitBottom; under OnlyWrite it writes the entries and finalizes the
\* transactions without issuing a flush.
C28_FlushPolicyHonoured ==
    [][/\ (flush_option_ = "FlushAtOnce") => FlushAtOnceStep
       /\ (flush_option_ = "OnlyWrite") => OnlyWriteStep]_vars

CommitTsOf(entries) == {entries[i].commit_ts : i \in 1..Len(entries)}

\* The rolled file wal.log.<T> is named after the greatest commit_ts it holds, and
\* everything in the later files is above T.
NamedAfterGreatest(f) ==
    /\ f.entries # <<>>
    /\ f.name = Max(CommitTsOf(f.entries))
    /\ \A ts \in CommitTsOf(wal_log) : ts > f.name
    /\ \A g \in rolled : (g.name > f.name) => \A ts \in CommitTsOf(g.entries) : ts > f.name

\* A rotation renames wal.log to a name that no rolled file has and that is above
\* the commit_ts of every entry written before the entries of wal.log.
RenameIsNew ==
    (fpc = "swap" /\ fpc' = "trigger" /\ rolled' # rolled)
       => /\ \A f \in rolled : f.name # max_commit_ts_
          /\ Cardinality(rolled') = Cardinality(rolled) + 1
          /\ \A i \in 1..(Len(written) - Len(wal_log)) : written[i].commit_ts < max_commit_ts_

\* C29: every rolled file wal.log.<T> holds entries with commit_ts <= T, T being the
\* greatest of them, every entry written afterwards (later rolled files, wal.log) has
\* commit_ts > T, and no rotation renames onto a name that was used before.
C29_RolledFileNaming ==
    /\ [](\A f \in rolled : NamedAfterGreatest(f))
    /\ [][RenameIsNew]_vars

\* Two rolled files, and wal.log holds entries written after both.
C29_Witness ==
    /\ \E f, g \in rolled : f.name < g.name
    /\ wal_log # <<>>

\* This step replays a Compact entry to its end: old is the segment it deprecates,
\* new the segment it installs under an id the table did not hold, as the table
\* holds them afterwards.
CompactReplayed(old, new) ==
    /\ rcount' = rcount + 1
    /\ rlast'.type = "COMPACT"
    /\ rerr' = "none"
    /\ \A s \in rcat.segments : s.id # rlast'.seg
    /\ old \in rcat'.segments /\ old.id = rlast'.dep
    /\ new \in rcat'.segments /\ new.id = rlast'.seg

CompactMarks(old, new) ==
    /\ old.status = "Deprecated" /\ old.deprecate_ts = rlast'.commit_ts
    /\ new.status = "Sealed" /\ new.commit_ts = rlast'.commit_ts
    /\ new.deprecate_ts = UNCOMMIT_TS

\* C31 as stated: after the replay of Compact(new_segments, deprecated) at commit_ts
\* c the deprecated segment is Deprecated with deprecate_ts = c, the new segment is
\* Sealed with commit_ts = c, and at every snap_ts exactly one of them is visible: the
\* deprecated one below c, the new one from c on.
C31_CompactAtomicAtEverySnapshot ==
    [][\A old, new \in rcat'.segments :
          CompactReplayed(old, new)
            => /\ CompactMarks(old, new)
               /\ \A snap_ts \in SnapshotTs :
                     /\ SegmentVisible(old, snap_ts) <=> snap_ts < rlast'.commit_ts
                     /\ SegmentVisible(new, snap_ts) <=> snap_ts >= rlast'.commit_ts]_vars

\* C31, amended: the marks are as stated; the new segment is visible exactly at the
\* snapshots from c on, the deprecated one exactly at the snapshots below c that are
\* at or after its own commit_ts, so never both; a snapshot older than the
\* deprecated segment sees neither.
C31_CompactSwitchesAtCommit ==
    [][\A old, new \in rcat'.segments :
          CompactReplayed(old, new)
            => /\ CompactMarks(old, new)
               /\ \A snap_ts \in SnapshotTs :
                     /\ SegmentVisible(old, snap_ts)
                          <=> (old.commit_ts <= snap_ts /\ snap_ts < rlast'.commit_ts)
                     /\ SegmentVisible(new, snap_ts) <=> snap_ts >= rlast'.commit_ts
                     /\ ~(SegmentVisible(old, snap_ts) /\ SegmentVisible(new, snap_ts))]_vars

\* A Compact at 3 deprecated a segment imported at 2 and installed its successor.
C31_Witness ==
    /\ rlast.type = "COMPACT" /\ rerr = "none" /\ rlast.commit_ts = 3
    /\ \E old, new \in rcat.segments :
          /\ old.id = rlast.dep /\ old.commit_ts = 2 /\ old.status = "Deprecated"
          /\ new.id = rlast.seg /\ new.commit_ts = 3

\* The parent a data command names is missing: its table is not visible at the
\* commit_ts of the entry, or the segment a Compact deprecates is not in the table.
TableMissing(cmd) ==
    /\ cmd.type \in {"IMPORT", "APPEND", "DELETE", "COMPACT"}
    /\ ~GetTableByName(rcat, cmd.commit_ts)

DeprecatedSegmentMissing(cmd) ==
    /\ cmd.type = "COMPACT"
    /\ \A s \in rcat.segments : s.id # cmd.dep

\* C32: the replay of Import, Append, Delete or Compact for a table that is not
\* visible at the commit_ts of the entry, or of a Compact naming a deprecated segment
\* id the table does not hold, raises an unrecoverable error and installs nothing.
C32_MissingParentIsFatal ==
    [][(rcount' = rcount + 1 /\ (TableMissing(rlast') \/ DeprecatedSegmentMissing(rlast')))
          => (rerr' = "unrecoverable" /\ rcat' = rcat)]_vars

\* This step is a call of GetIndexReader that took the slow path.
SlowPathStep ==
    /\ ReaderStep
    /\ ~(Returned.begin_ts >= cache_ts_ /\ Returned.begin_ts < first_known_update_ts_)

\* The returned reader covers the full-text index on column c: it has a column reader
\* and an analyzer entry for c, and the column reader is the cached object iff the
\* cache holds the column at the current update timestamp of the index, else an
\* object constructed by this call.
FullTextCovered(c) ==
    LET readers == reader_maps'[Returned.column_index_readers_]
        analyzers == analyzer_maps'[Returned.column2analyzer_]
        cached == cache_column_readers_ # NullMap /\ cache_column_ts_[c] # 0
                    /\ cache_column_ts_[c] = segment_update_ts[c]
    IN  /\ readers[c] # 0
        /\ analyzers[c] # ""
        /\ IF cached THEN readers[c] = reader_maps[cache_column_readers_][c]
                     ELSE readers[c] > Len(column_readers)

\* The returned reader has no entry for column c.
NothingContributed(c) ==
    /\ reader_maps'[Returned.column_index_readers_][c] = 0
    /\ analyzer_maps'[Returned.column2analyzer_][c] = ""

\* C33: on the slow path the returned reader has, for every full-text index of the
\* table, a column reader for the column of the index and an analyzer entry for it;
\* the cached column reader is reused iff cache_column_ts_ of the column equals the
\* current full_text_segment_update_ts of the index, otherwise a fresh reader is
\* opened; an index of another type contributes nothing.
C33_SlowPathCoversFullText ==
    [][SlowPathStep
         => \A i \in DOMAIN IndexMetaMap :
               IF IndexMetaMap[i].index_type = "FullText"
                 THEN FullTextCovered(IndexMetaMap[i].column_id)
                 ELSE NothingContributed(IndexMetaMap[i].column_id)]_vars

\* A checkpoint timestamp that is set stays set and does not decrease in this step.
KeepsOrGrows(ts, next) == (ts # UNCOMMIT_TS) => (next # UNCOMMIT_TS /\ next >= ts)

\* C34: over the calls of CheckpointInner that return normally, last_ckp_ts_ never
\* decreases once set, last_full_ckp_ts_ never decreases once set, and whenever both
\* are set last_full_ckp_ts_ <= last_ckp_ts_.
C34_CheckpointTsOrdered ==
    /\ []((last_ckp_ts_ # UNCOMMIT_TS /\ last_full_ckp_ts_ # UNCOMMIT_TS)
             => last_full_ckp_ts_ <= last_ckp_ts_)
    /\ [](last_full_ckp_ts_ # UNCOMMIT_TS => last_ckp_ts_ # UNCOMMIT_TS)
    /\ [][/\ KeepsOrGrows(last_ckp_ts_, last_ckp_ts_')
          /\ KeepsOrGrows(last_full_ckp_ts_, last_full_ckp_ts_')]_vars

\* A full checkpoint, then a delta checkpoint above it, then a full checkpoint that
\* failed with a recoverable error and still moved both timestamps.
C34_Witness ==
    /\ ckp_outcome = "recoverable"
    /\ last_full_ckp_ts_ # UNCOMMIT_TS
    /\ last_full_ckp_ts_ = last_ckp_ts_
    /\ last_ckp_ts_ >= 2
    /\ submits >= 3

\* This step is a call of CheckpointInner on a manager whose last_ckp_ts_ is unset.
FirstCheckpointCall ==
    /\ bpc = "inner" /\ bpc' # "inner"
    /\ last_ckp_ts_ = UNCOMMIT_TS

\* C35: while last_ckp_ts_ holds its initial value UNCOMMIT_TS, a delta checkpoint
\* with any max_commit_ts raises an unrecoverable error and a full checkpoint passes
\* the checks; the checkpoint that sets last_ckp_ts_ first is a full one.
C35_FirstCheckpointIsFull ==
    [][/\ (FirstCheckpointCall /\ ~btask.is_full)
             => (ckp_outcome' = "precheck_error" /\ fatal' /\ last_ckp_ts_' = UNCOMMIT_TS)
       /\ (FirstCheckpointCall /\ btask.is_full)
             => ckp_outcome' \in {"ok", "false", "recoverable", "unrecoverable"}
       /\ (last_ckp_ts_ = UNCOMMIT_TS /\ last_ckp_ts_' # UNCOMMIT_TS)
             => (btask.is_full /\ last_full_ckp_ts_' = last_ckp_ts_')]_vars

\* A full checkpoint was accepted and txn->Checkpoint returned false; the delta
\* checkpoint after it met the unset last_ckp_ts_ and ended the process.
C35_Witness ==
    /\ ckp_outcome = "precheck_error" /\ fatal
    /\ ~btask.is_full
    /\ last_ckp_ts_ = UNCOMMIT_TS
    /\ ckp_failed

\* C36: every way out of CheckpointInner (skip, txn->Checkpoint returning false,
\* recoverable error, unrecoverable error, success) leaves checkpoint_in_progress_
\* false, and a flag that is set is always released again, so a later
\* TrySubmitCheckpointTask succeeds.
C36_FlagAlwaysReleased ==
    /\ [][(bpc = "inner" /\ bpc' # "inner") => ~checkpoint_in_progress_']_vars
    /\ checkpoint_in_progress_ ~> ~checkpoint_in_progress_

\* A checkpoint attempt failed, and a task offered after it was accepted.
C36_Witness ==
    /\ ckp_failed
    /\ checkpoint_in_progress_ /\ bg_queue # <<>>
    /\ submits = 2

\* C37: a Stop call that has won the compare-exchange on running_ returns from its
\* join, with the flush thread out of its loop, whatever the flush thread was doing
\* when the call won.
C37_StopTerminates ==
    \A s \in Stoppers :
        (spc[s] \in {"enqueue", "join"}) ~> (spc[s] = "stopped" /\ fpc = "exited")

\* A Stop call returned from its join; the flush thread had written entries and left
\* through the test of running_, so the terminate entry is still in the queue.
C37_Witness ==
    /\ \E s \in Stoppers : spc[s] = "stopped"
    /\ fpc = "exited"
    /\ written # <<>>
    /\ NilEntry \in Range(blocking_queue_)

\* C38: whenever the test of the fast path holds for some begin_ts, the cached reader
\* map and the cached analyzer map exist: an adoption on the slow path came first.
C38_FastPathCacheBuilt ==
    \A begin_ts \in 0..MaxCallTs :
       UseCache(begin_ts)
         => (cache_column_readers_ # NullMap /\ column2analyzer_ # NullMap)

\* The fast path is open for begin_ts 2 on a cache adopted after an update at 1.
C38_Witness ==
    /\ UseCache(2)
    /\ cache_ts_ = 1
    /\ cache_column_readers_ # NullMap

\* C39: cache_ts_ never decreases: every adoption sets it to a value at or above its
\* previous value, whatever the order of the begin_ts values of the calls.
C39_CacheTsNeverDecreases == [][cache_ts_' >= cache_ts_]_vars

\* C40: a reader map or analyzer map that GetIndexReader has returned or adopted is
\* never modified afterwards, not by a later GetIndexReader or UpdateKnownUpdateTs
\* and not by IndexReader::GetColumnIndexReader called outside the mutex, also for a
\* column without full-text index.
C40_PublishedMapsImmutable ==
    [][/\ \A m \in DOMAIN reader_maps : reader_maps'[m] = reader_maps[m]
       /\ \A m \in DOMAIN analyzer_maps : analyzer_maps'[m] = analyzer_maps[m]]_vars

====
